---- MODULE Spec2Model ----
(***************************************************************************)
(* Model of the Excel question-answering Telegram bot:                     *)
(*   telegram-excel-bot.py  - per-user session state machine, dispatch     *)
(*   answer.py              - question pipeline (always run with --cache)  *)
(*   table_file_answer.py   - table-building pipeline                      *)
(* Texts are sequences of tokens (one token = one word or one line), so    *)
(* that splitting, stripping and prefix tests are computed, not assumed.   *)
(* Thirteen specifications share the variables:                            *)
(*   Spec       - one session through every handler of the bot             *)
(*   SpecShared - two sessions that share the working directory            *)
(*   SpecChat   - one session with two different messages                  *)
(*   SpecFrame  - two sessions through every handler of the bot            *)
(*   SpecLoop   - the polling application, handlers step by step           *)
(*   SpecApi    - the scripts with every failure of the model API          *)
(*   SpecPipe   - the scripts run from the command line on several paths   *)
(*   SpecStage  - the scripts on a spreadsheet that is staged in chunks    *)
(*   SpecRetry  - table_file_answer.py with sheet reads that fail          *)
(*   SpecAgg    - table_file_answer.py on results above the summary size   *)
(*   SpecSend   - two sessions building tables, sending may fail           *)
(*   SpecExec   - the execution engine of table_file_answer.py, stepwise   *)
(*   SpecDrain  - the engine's draining loop with time advancing, fair     *)
(***************************************************************************)
EXTENDS Integers, Sequences, FiniteSets, TLC

VARIABLES
    user_states,   \* telegram-excel-bot.py:31  user id -> state (or absent)
    user_data,     \* telegram-excel-bot.py:33  user id -> dict (or absent)
    disk,          \* spreadsheet files on disk: path -> content
    dbs,           \* SQLite store files in the working directory
    final_xlsx,    \* the result artifact final.xlsx in the working directory
    chat_files,    \* the serialized-history files that exist in the temp dir
    dispatched,    \* number of pipeline runs started so far (bounded)
    last_turn,     \* observation: the text or report handler that ran last, what
                   \* its pipeline run did and what the user was shown
    chat_base,     \* observation: rows of the store used by a chat's first turn
    ex,            \* the execution engine of table_file_answer.py, step by step
    loop           \* telegram-excel-bot.py:744  the polling application: updates
                   \* received and not yet handled, handlers in progress

vars == <<user_states, user_data, disk, dbs, final_xlsx, chat_files, dispatched,
          last_turn, chat_base, ex, loop>>

-----------------------------------------------------------------------------
\* Bounds of the model

MaxDispatch == 3      \* pipeline runs per behaviour
MaxSharedDispatch == 3   \* pipeline runs of the two-session behaviours
MaxChatDispatch == 3
MaxFrameDispatch == 2
MaxUpdates == 4
MaxPipeRuns == 2
MaxStageRuns == 2     \* pipeline runs of the two-message behaviours
MaxApiRuns == 2
MaxRetryRuns == 2
MaxAggRuns == 2
MaxSendDispatch == 3
MaxN == 1             \* largest row count a query of the bot model returns
MaxBatches == 2       \* full batches in a result set of the engine model
MaxTicks == 3         \* slow steps the engine model's clock may take

-----------------------------------------------------------------------------
\* Program constants

STATE_IDLE == "idle"
STATE_WAITING_QUERY == "waiting_query"
STATE_CHAT_MODE == "chat_mode"
Absent == "absent"            \* key not in the dict

BATCH_SIZE == 1000
DefaultTimeout == 600

MARKER == "=== RESULT FOR THE USER ==="   \* the marker line, transliterated
FENCE == "<fence>"              \* the three-backtick code fence
NL == "\n"
Whitespace == {" ", NL}

-----------------------------------------------------------------------------
\* Text helpers (Python str methods on token sequences)

RECURSIVE LStrip(_)
LStrip(s) == IF s # <<>> /\ Head(s) \in Whitespace THEN LStrip(Tail(s)) ELSE s

RECURSIVE RStrip(_)
RStrip(s) ==
    IF s # <<>> /\ s[Len(s)] \in Whitespace
    THEN RStrip(SubSeq(s, 1, Len(s) - 1))
    ELSE s

\* str.strip()
Strip(s) == RStrip(LStrip(s))

Occurs(s, pat, i) ==
    /\ i + Len(pat) - 1 <= Len(s)
    /\ SubSeq(s, i, i + Len(pat) - 1) = pat

\* index of the first occurrence of pat in s, 0 when there is none
Find(s, pat) ==
    IF \E i \in 1..Len(s) : Occurs(s, pat, i)
    THEN CHOOSE i \in 1..Len(s) :
            Occurs(s, pat, i) /\ \A j \in 1..(i - 1) : ~Occurs(s, pat, j)
    ELSE 0

\* pat in s
Contains(s, pat) == Find(s, pat) # 0

\* s.split(pat, 1)[1]
SplitAfter(s, pat) == SubSeq(s, Find(s, pat) + Len(pat), Len(s))

\* s.split(pat, 1)[0]
SplitBefore(s, pat) == SubSeq(s, 1, Find(s, pat) - 1)

\* str.upper() on the tokens that matter
Upper(t) ==
    CASE t \in {"select", "Select", "SELECT"} -> "SELECT"
      [] t \in {"delete", "DELETE"} -> "DELETE"
      [] OTHER -> t

Min(a, b) == IF a < b THEN a ELSE b

-----------------------------------------------------------------------------
\* The environment: users, the Drive folder, spreadsheet contents, paths

Users == {"u1", "u2"}
Queries == {"q1"}
FileIds == {"f1", "f2"}

\* a workbook is a sequence of sheets, a sheet has a name and rows of one cell
\* the columns of the sheets: a number in WbA, a timestamp in WbB
NumberColumn == [name |-> <<"value">>, type |-> "INTEGER"]
TimeColumn == [name |-> <<"built">>, type |-> "TIMESTAMP"]
WbA == << [name |-> "s1", rows |-> <<11, 12>>, cols |-> <<NumberColumn>>] >>
WbB == << [name |-> "s1", rows |-> <<21>>, cols |-> <<TimeColumn>>],
          [name |-> "s2", rows |-> <<22>>, cols |-> <<TimeColumn>>] >>
\* what a download that failed after opening the file leaves: no workbook
Truncated == <<>>
\* chunk_size = 5000: frames longer than this are inserted in chunks
chunk_size == 5000
\* a workbook of one sheet that needs two chunks
WbBig == << [name |-> "s1", rows |-> [i \in 1..(chunk_size + 1) |-> i],
             cols |-> <<NumberColumn>>] >>
WorkbookList == <<WbA, WbB, Truncated>>
Workbooks == {WorkbookList[i] : i \in 1..Len(WorkbookList)}

NameA == <<"a", ".", "xlsx">>
NameB == <<"b", ".", "xlsx">>

\* the folder listing: two files of the folder carry the same name
DriveName(f) == NameA
DriveContent(f) == IF f = "f2" THEN WbB ELSE WbA

temp_dir == "tmp"
NoPath == [dir |-> "", base |-> <<>>]

\* os.path.join(directory, file_name)
PathJoin(d, name) == [dir |-> d, base |-> name]

\* os.path.basename(path)
Basename(path) == path.base

\* the bot downloads to temp_dir under the Drive name; the scripts may be given
\* any path
Paths == {PathJoin(temp_dir, NameA), PathJoin(temp_dir, NameB)}

\* str.replace('.', '_')
ReplaceDots(name) == [i \in 1..Len(name) |-> IF name[i] = "." THEN "_" ELSE name[i]]

\* db_file = f"temp_db_{basename.replace('.', '_')}.sqlite"
DbFile(path) == <<"temp_db_">> \o ReplaceDots(Basename(path)) \o <<".sqlite">>

StoreFiles == {DbFile(p) : p \in Paths}

\* MD5 of the file's bytes: distinct contents of the model get distinct digests
get_file_hash(wb) ==
    IF wb = <<>> THEN 1 ELSE 1 + Len(wb) + 10 * wb[1].rows[1]

NoFileOnDisk == [exists |-> FALSE, wb |-> <<>>]
NoStore == [exists |-> FALSE, rows |-> <<>>, src |-> 0, src_path |-> NoPath]
NoArtifact == [exists |-> FALSE, rows |-> <<>>, summary |-> FALSE]

-----------------------------------------------------------------------------
\* Ingestion and staging

RECURSIVE Concat(_)
Concat(dfs) == IF dfs = <<>> THEN <<>> ELSE Head(dfs) \o Concat(Tail(dfs))

\* a faulty variant of ReadSheet that tags no row with its sheet; C25 must
\* notice it
ReadSheetUntagged(sh) ==
    [i \in 1..Len(sh.rows) |-> [value |-> sh.rows[i], sheet_name |-> ""]]

\* one sheet read, with the added _sheet_name column
ReadSheet(sh) ==
    [i \in 1..Len(sh.rows) |-> [value |-> sh.rows[i], sheet_name |-> sh.name]]

\* pd.ExcelFile / read_excel raise on a file that is no workbook, or when the
\* environment makes the read fail
ReadFails(e, wb) == ~e.read_ok \/ wb = Truncated

\* every sheet read and concatenated in sheet order
ReadExcel(wb) == Concat([i \in 1..Len(wb) |-> ReadSheet(wb[i])])

\* for attempt in range(3)
MaxAttempts == 3

\* the reads of one sheet fail k times in a row before one succeeds
NoReadFailures == <<>>
FailsOf(fails, i) == IF i \in DOMAIN fails THEN fails[i] ELSE 0

\* the attempts the retry loop makes for a sheet whose first k reads fail
Attempts(k) == IF k < MaxAttempts THEN k + 1 ELSE MaxAttempts

\* a faulty variant of RetrySheet that keeps a frame for every attempt; C31 must
\* notice it
RetrySheetEveryAttempt(sh, k) == [a \in 1..Attempts(k) |-> ReadSheet(sh)]

\* what the retry loop appends to all_dfs for one sheet: the frame of the
\* attempt that succeeds, nothing when the last attempt raises
RetrySheet(sh, k) == IF k < MaxAttempts THEN <<ReadSheet(sh)>> ELSE <<>>

\* the sheet loop of table_file_answer.py from sheet i on: it stops at the
\* first sheet whose last attempt raises
RECURSIVE ReadSheets(_, _, _, _, _)
ReadSheets(wb, fails, i, all_dfs, attempts) ==
    IF i > Len(wb)
    THEN [raised |-> FALSE, df |-> Concat(all_dfs), attempts |-> attempts]
    ELSE IF FailsOf(fails, i) >= MaxAttempts
    THEN [raised |-> TRUE, df |-> <<>>,
          attempts |-> Append(attempts, Attempts(FailsOf(fails, i)))]
    ELSE ReadSheets(wb, fails, i + 1,
                    all_dfs \o RetrySheet(wb[i], FailsOf(fails, i)),
                    Append(attempts, Attempts(FailsOf(fails, i))))

\* file_cache = {} when the script's process starts
file_cache == [k \in {} |-> [dataframe |-> <<>>, sheets |-> <<>>]]

\* args.cache and cache_key in file_cache and os.path.exists(db_file)
CacheHit(cache, cache_key, db_exists) ==
    cache /\ cache_key \in DOMAIN file_cache /\ db_exists

\* if not args.cache or not os.path.exists(db_file): create and fill the store
NeedsStaging(cache, db_exists) == ~cache \/ ~db_exists

\* df.to_sql(table_name, conn, if_exists='replace'); the store remembers which
\* content and path it was filled from (observation only)
Stage(stores, db_file, df, file_hash, path) ==
    [stores EXCEPT ![db_file] =
        [exists |-> TRUE, rows |-> df, src |-> file_hash, src_path |-> path]]

\* the number of to_sql calls Step 2 of table_file_answer.py makes for df
NumChunks(df) ==
    IF Len(df) > chunk_size THEN (Len(df) + chunk_size - 1) \div chunk_size ELSE 1

\* the fail_at-th to_sql call raises after the calls before it were committed;
\* a failure of the first call is left out, what it leaves is not determined
StagingFails(df, fail_at) == Len(df) > chunk_size /\ fail_at \in 2..NumChunks(df)

\* the chunks inserted before the failure, or all of df
StageChunks(stores, db_file, df, file_hash, path, fail_at) ==
    Stage(stores, db_file,
          IF StagingFails(df, fail_at)
          THEN SubSeq(df, 1, (fail_at - 1) * chunk_size)
          ELSE df,
          file_hash, path)

\* if args.cache: file_cache[cache_key] = {...}, after the sheets were read
Populates(cache, hit, e, wb) == cache /\ ~hit /\ ~ReadFails(e, wb)

\* Step 2 of answer.py: one to_sql call
StageOrReuse(stores, db_file, df, file_hash, path, cache) ==
    IF NeedsStaging(cache, stores[db_file].exists)
    THEN Stage(stores, db_file, df, file_hash, path)
    ELSE stores

-----------------------------------------------------------------------------
\* Query synthesis: what the model may answer, extraction, validation

SqlResponses ==
    { <<"SELECT", "cols">>,
      <<FENCE, "sql", NL, "select", "cols", NL, FENCE>>,
      <<FENCE, "sql", NL, "SELECT", "cols", NL, FENCE>>,
      <<FENCE, NL, "SELECT", "cols", NL, FENCE>>,
      <<FENCE, NL, "SELECT", "cols", NL, FENCE, NL, "note">>,
      <<NL, "SELECT", "cols", NL>>,
      <<"note", NL, "SELECT", "cols">>,
      <<"DELETE", "cols">>,
      <<FENCE, "sql", NL, "DELETE", "cols", NL, FENCE>>,
      <<"api_error">> }

FenceSql == <<FENCE, "sql">>
FenceOnly == <<FENCE>>

\* the two fenced branches shared by all scripts
ExtractFenced(r) ==
    IF Contains(r, FenceSql) /\ Contains(SplitAfter(r, FenceSql), FenceOnly)
    THEN [hit |-> TRUE,
          sql |-> Strip(SplitBefore(SplitAfter(r, FenceSql), FenceOnly))]
    ELSE IF Contains(r, FenceOnly) /\ Contains(SplitAfter(r, FenceOnly), FenceOnly)
    THEN [hit |-> TRUE,
          sql |-> Strip(SplitBefore(SplitAfter(r, FenceOnly), FenceOnly))]
    ELSE [hit |-> FALSE, sql |-> r]

\* answer.py: no else branch, an unfenced response is used as it is
ExtractSqlAnswer(r) == ExtractFenced(r).sql

\* table_file_answer.py: else sql_response.strip()
ExtractSqlTable(r) == IF ExtractFenced(r).hit THEN ExtractFenced(r).sql ELSE Strip(r)

\* PRAGMA table_info of the table staged from wb: the columns of the sheets
\* and the added _sheet_name
SchemaOf(wb) == wb[1].cols \o <<[name |-> <<"_sheet_name">>, type |-> "TEXT"]>>

\* '(TIMESTAMP)' in line or 'Date' in line or 'data' (Cyrillic, any case) in line
DateLike(col) ==
    \/ col.type = "TIMESTAMP"
    \/ Contains(col.name, <<"Date">>)
    \/ Contains(col.name, <<"data_ru">>)

\* generate_sql_for_date_filters: the hint naming the date columns is appended
\* when the schema has any
generate_sql_for_date_filters(sql_prompt, schema) ==
    IF \E i \in 1..Len(schema) : DateLike(schema[i])
    THEN sql_prompt \o <<"date_hint">>
    ELSE sql_prompt

\* Step 5B of table_file_answer.py: the instructions with the suggested columns,
\* the schema and ten rows, and the hint on _sheet_name for several sheets;
\* generate_sql_for_date_filters is not called
table_sql_prompt(schema, wb) ==
    <<"sql_instructions", "schema", "sample_rows">>
        \o (IF Len(wb) > 1 THEN <<"sheet_hint">> ELSE <<>>)

\* sql_query.upper().startswith("SELECT")
StartsWithSelect(q) == q # <<>> /\ Upper(q[1]) = "SELECT"

\* table_file_answer.py validates the query before executing it
TableAccepts(sql_query) == StartsWithSelect(sql_query)

\* answer.py executes whatever was extracted
AnswerAccepts(gpt_sql) == TRUE

-----------------------------------------------------------------------------
\* The SQLite engine as seen through cursor.execute / fetch

ExecKindsAll == {"rows", "op_timeout", "op_error", "error", "no_description"}

\* the leading keyword SQLite sees (leading white space is skipped)
Verb(q) == IF LStrip(q) = <<>> THEN "" ELSE Upper(LStrip(q)[1])

\* what executing q can do: a SELECT returns rows or raises; a DELETE runs and
\* leaves cursor.description None (TypeError in the caller, the uncommitted
\* change is rolled back); anything else is a syntax error (OperationalError)
ExecKinds(q) ==
    CASE Verb(q) = "SELECT" -> {"rows", "op_timeout", "op_error", "error"}
      [] Verb(q) = "DELETE" -> {"no_description"}
      [] OTHER -> {"op_error"}

\* the rows a query returns: the first n rows of the store
QueryRows(store, n) == SubSeq(store.rows, 1, Min(n, Len(store.rows)))

\* cursor.fetchmany(BATCH_SIZE) at cursor position pos
FetchMany(rs, pos) == SubSeq(rs, pos + 1, Min(pos + BATCH_SIZE, Len(rs)))

\* a faulty variant of BudgetExceeded that never ends the loop; C8 must notice it
BudgetIgnored(elapsed, timeout) == FALSE

\* elapsed > args.timeout
BudgetExceeded(elapsed, timeout) == elapsed > timeout

\* the draining loop: every fetch takes d, the budget is tested after a batch
RECURSIVE FetchLoop(_, _, _, _, _, _)
FetchLoop(rs, pos, all_results, now, d, timeout) ==
    LET batch == FetchMany(rs, pos) IN
    IF batch = <<>> THEN all_results
    ELSE IF BudgetExceeded(now + d, timeout) THEN all_results \o batch
    ELSE FetchLoop(rs, pos + Len(batch), all_results \o batch, now + d, d, timeout)

-----------------------------------------------------------------------------
\* One run of a script: the inputs the environment decides

GptTexts == {"gpt_answer", "gpt_retry_help", "gpt_clarify_empty", "gpt_simplify",
             "gpt_clarify_error", "gpt_description"}

\* chat_with_gpt: the completion, or the error text when the API call fails
chat_with_gpt(completion, api_ok) == IF api_ok THEN completion ELSE "api_error"

\* a faulty variant of chat_with_gpt_raises that lets the exception of a failed
\* API call through; C26 must notice it
chat_with_gpt_reraises(api_ok) == ~api_ok

\* except Exception as e: ... return f"...": a failed API call is caught inside
\* chat_with_gpt, the caller sees no exception
chat_with_gpt_raises(api_ok) == FALSE

\* read_ok: the workbook can be read; resp: the model's answer to the SQL
\* request; kind, n: what executing the query does; api_ok: the model call made
\* after execution succeeds; slow: every fetch outlasts the budget
Envs ==
    {e \in [read_ok : BOOLEAN, resp : SqlResponses, kind : ExecKindsAll,
            n : 0..MaxN, api_ok : BOOLEAN, slow : BOOLEAN] :
        /\ ~e.read_ok => /\ e.resp = <<"SELECT", "cols">>
                         /\ e.kind = "rows" /\ e.n = 0 /\ e.api_ok /\ ~e.slow
        /\ e.kind # "rows" => e.n = 0 /\ ~e.slow}

NoRun ==
    [user |-> "", handler |-> "", query |-> "", shown |-> <<>>, script |-> "", path |-> NoPath, cache |-> FALSE, fp |-> 0,
     staged |-> FALSE, exec_called |-> FALSE, sql |-> <<>>,
     store_src |-> 0, store_src_path |-> NoPath, store_rows |-> <<>>,
     kind |-> "", nrows |-> 0, calls_after_exec |-> 0, reply |-> "",
     read_called |-> FALSE, populated |-> FALSE, chat_file |-> 0, exit |-> 0,
     api_failed |-> FALSE, resp |-> <<>>, attempts |-> <<>>,
     read_aborted |-> FALSE, schema |-> <<>>, sql_prompt |-> <<>>,
     summary |-> <<>>, agg_raised |-> FALSE]

Output(stdout, exit, stores, artifact, log) ==
    [stdout |-> stdout, exit |-> exit, dbs |-> stores, final |-> artifact,
     log |-> [log EXCEPT !.exit = exit]]

\* print("\n=== ... ===\n"); print(text)
AfterMarker(text) == <<"log", NL, MARKER, NL>> \o text

\* answer.py, Steps 6-8: execute, then answer or explain the failure
AnswerExecute(log, e, cache, db_file, stores, artifact) ==
    LET store == stores[db_file]
        ran == [log EXCEPT !.exec_called = TRUE, !.kind = e.kind,
                           !.store_src = store.src,
                           !.store_src_path = store.src_path,
                           !.store_rows = store.rows,
                           !.calls_after_exec = 1,
                           !.api_failed = ~e.api_ok]
        cleaned == IF cache THEN stores ELSE [stores EXCEPT ![db_file] = NoStore]
    IN  IF e.kind = "rows"
        THEN LET query_result == QueryRows(store, e.n)
                 natural_language_answer == chat_with_gpt("gpt_answer", e.api_ok)
             IN  \* an exception in Step 7 is printed, Step 8 follows
                 IF chat_with_gpt_raises(e.api_ok)
                 THEN Output(<<"log">>, 0, cleaned, artifact,
                             [ran EXCEPT !.nrows = Len(query_result)])
                 ELSE
                 Output(AfterMarker(<<natural_language_answer>>), 0,
                        IF cache THEN stores
                        ELSE [stores EXCEPT ![db_file] = NoStore],
                        artifact,
                        [ran EXCEPT !.nrows = Len(query_result),
                                    !.reply = natural_language_answer])
        ELSE LET error_response == chat_with_gpt("gpt_retry_help", e.api_ok)
             IN  \* an exception in the handler reaches the except clause of main()
                 IF chat_with_gpt_raises(e.api_ok)
                 THEN Output(<<"log">>, 1, stores, artifact, ran)
                 ELSE
                 Output(AfterMarker(<<error_response>>), 1, stores, artifact,
                        [ran EXCEPT !.reply = error_response])

\* answer.py main(), called with file_path and --cache or not
AnswerMain(path, cache, e, dsk, stores, artifact) ==
    LET db_file == DbFile(path)
        log0 == [NoRun EXCEPT !.script = "answer.py", !.path = path,
                              !.cache = cache]
    IN  IF ~dsk[path].exists
        THEN Output(<<"log">>, 1, stores, artifact, log0)
        ELSE
        LET file_hash == get_file_hash(dsk[path].wb)
            cache_key == <<file_hash, db_file>>
            hit == CacheHit(cache, cache_key, stores[db_file].exists)
            log1 == [log0 EXCEPT !.fp = file_hash, !.read_called = ~hit,
                                  !.populated = Populates(cache, hit, e, dsk[path].wb)]
        IN  IF ~hit /\ ReadFails(e, dsk[path].wb)
            THEN Output(<<"log">>, 1, stores, artifact, log1)
            ELSE
            LET df == IF hit THEN file_cache[cache_key].dataframe
                      ELSE ReadExcel(dsk[path].wb)
                staged == StageOrReuse(stores, db_file, df, file_hash, path, cache)
                gpt_sql == ExtractSqlAnswer(e.resp)
                log2 == [log1 EXCEPT
                            !.staged = NeedsStaging(cache, stores[db_file].exists),
                            !.sql = gpt_sql, !.resp = e.resp]
            IN  IF AnswerAccepts(gpt_sql)
                THEN AnswerExecute(log2, e, cache, db_file, staged, artifact)
                ELSE Output(<<"log">>, 1, staged, artifact, log2)

\* if len(df_result) > 1000
AggThreshold == 1000

\* the fields of the model's reply to the request for a grouping (the reply
\* split at commas, each field stripped) and whether pandas raises while it
\* groups, aggregates or writes the sheet; runs that are not given them get
\* a reply of one field
SummaryOf(e) == IF "summary" \in DOMAIN e THEN e.summary ELSE <<<<"gpt_summary">>>>
AggRaises(e) == IF "agg_raises" \in DOMAIN e THEN e.agg_raises ELSE FALSE

\* the column names of a schema
ColumnNames(schema) == {schema[i].name : i \in 1..Len(schema)}

\* {col: agg_method for col in value_cols if col in df_result.columns}
AggDict(parts, columns) == {parts[i] : i \in 3..Len(parts)} \cap columns

\* a faulty variant of Aggregated that wants every proposed value column to
\* exist; C33 must notice it
AggregatedWhenAllExist(nrows, columns, parts, raises) ==
    /\ nrows > AggThreshold
    /\ Len(parts) >= 3
    /\ parts[1] \in columns
    /\ \A i \in 3..Len(parts) : parts[i] \in columns
    /\ ~raises

\* the sheet with the aggregate is written: more than 1000 rows, three fields
\* or more, the first a column, one value column or more that exists, and
\* nothing raised on the way (an exception is printed and dropped)
Aggregated(nrows, columns, parts, raises) ==
    /\ nrows > AggThreshold
    /\ Len(parts) >= 3
    /\ parts[1] \in columns
    /\ AggDict(parts, columns) # {}
    /\ ~raises

\* a faulty variant of EscapesAggregation without the inner except clause; C34
\* must notice it
EscapesWhenRaised(raises) == raises

\* except Exception as e: print(..) inside the with block: an exception of the
\* request for a grouping or of pandas does not leave the aggregation step
EscapesAggregation(raises) == FALSE

\* table_file_answer.py, Steps 6-8 of the standard mode
TableExecute(log, e, timeout, db_file, stores, artifact) ==
    LET store == stores[db_file]
        ran == [log EXCEPT !.exec_called = TRUE, !.kind = e.kind,
                           !.store_src = store.src,
                           !.store_src_path = store.src_path,
                           !.store_rows = store.rows,
                           !.api_failed = ~e.api_ok /\ e.kind # "error"]
        \* try: chat_with_gpt(..) except Exception: a fixed text
        Described(completion, fixed) ==
            IF chat_with_gpt_raises(e.api_ok) THEN fixed
            ELSE chat_with_gpt(completion, e.api_ok)
    IN  CASE e.kind = "rows" ->
             LET query_result ==
                     FetchLoop(QueryRows(store, e.n), 0, <<>>, 0,
                               IF e.slow THEN timeout + 1 ELSE 0, timeout)
             IN  IF query_result = <<>>
                 THEN LET clar_question ==
                              Described("gpt_clarify_empty", "fixed_clarify_empty")
                      IN  Output(AfterMarker(<<clar_question>>), 1, stores, artifact,
                                 [ran EXCEPT !.calls_after_exec = 1,
                                             !.reply = clar_question])
                 ELSE LET table_description ==
                              Described("gpt_description", "templated_description")
                          large == Len(query_result) > AggThreshold
                          \* chat_with_gpt(..).strip().split(',')
                          parts == IF ~large THEN <<>>
                                   ELSE IF e.api_ok THEN SummaryOf(e)
                                   ELSE <<<<chat_with_gpt("gpt_summary", e.api_ok)>>>>
                          raises == large /\ (AggRaises(e)
                                               \/ chat_with_gpt_raises(e.api_ok))
                      IN  \* an exception that left the with block would reach
                          \* the except clause of Step 8: the writer is closed,
                          \* the error is printed below the marker
                          IF EscapesAggregation(raises)
                          THEN Output(AfterMarker(<<"save_error">>), 0, stores,
                                      [exists |-> TRUE, rows |-> query_result,
                                       summary |-> FALSE],
                                      [ran EXCEPT !.nrows = Len(query_result),
                                                  !.calls_after_exec = 1,
                                                  !.reply = "save_error",
                                                  !.summary = parts,
                                                  !.agg_raised = raises])
                          ELSE
                          Output(AfterMarker(<<table_description, NL, "saved_to">>), 0,
                                 stores,
                                 [exists |-> TRUE, rows |-> query_result,
                                  summary |-> Aggregated(Len(query_result),
                                                         ColumnNames(log.schema),
                                                         parts, raises)],
                                 [ran EXCEPT
                                     !.nrows = Len(query_result),
                                     !.calls_after_exec = IF large THEN 2 ELSE 1,
                                     !.reply = table_description,
                                     !.summary = parts,
                                     !.agg_raised = raises])
          [] e.kind = "op_timeout" ->
             LET clar_question == Described("gpt_simplify", "fixed_simplify")
             IN  Output(AfterMarker(<<clar_question>>), 1, stores, artifact,
                        [ran EXCEPT !.calls_after_exec = 1, !.reply = clar_question])
          [] e.kind = "op_error" ->
             LET clar_question ==
                     Described("gpt_clarify_error", "fixed_clarify_error")
             IN  Output(AfterMarker(<<clar_question>>), 1, stores, artifact,
                        [ran EXCEPT !.calls_after_exec = 1, !.reply = clar_question])
          [] OTHER ->
             Output(AfterMarker(<<"raw_error">>), 1, stores, artifact, ran)

\* table_file_answer.py main() in its standard mode; fail_at is the to_sql call
\* of Step 2 that raises (0: none), fails the failed reads of each sheet
TableRunFlaky(path, cache, timeout, e, fail_at, fails, dsk, stores, artifact) ==
    LET db_file == DbFile(path)
        log0 == [NoRun EXCEPT !.script = "table_file_answer.py", !.path = path,
                              !.cache = cache]
    IN  IF ~dsk[path].exists
        THEN Output(<<"log">>, 1, stores, artifact, log0)
        ELSE
        LET file_hash == get_file_hash(dsk[path].wb)
            cache_key == <<file_hash, db_file>>
            hit == CacheHit(cache, cache_key, stores[db_file].exists)
            sheets == ReadSheets(dsk[path].wb, fails, 1, <<>>, <<>>)
            aborted == ~hit /\ (ReadFails(e, dsk[path].wb) \/ sheets.raised)
            log1 == [log0 EXCEPT !.fp = file_hash, !.read_called = ~hit,
                                  !.populated =
                                      Populates(cache, hit, e, dsk[path].wb) /\ ~aborted,
                                  !.attempts =
                                      IF hit \/ ReadFails(e, dsk[path].wb) THEN <<>>
                                      ELSE sheets.attempts,
                                  !.read_aborted = aborted]
        IN  IF aborted
            THEN Output(<<"log">>, 1, stores, artifact, log1)
            ELSE
            LET df == IF hit THEN file_cache[cache_key].dataframe
                      ELSE sheets.df
                needs == NeedsStaging(cache, stores[db_file].exists)
                staged == IF needs
                          THEN StageChunks(stores, db_file, df, file_hash, path,
                                           fail_at)
                          ELSE stores
                sql_query == ExtractSqlTable(e.resp)
                schema == IF dsk[path].wb = <<>> THEN <<>>
                          ELSE SchemaOf(dsk[path].wb)
                log2 == [log1 EXCEPT !.staged = needs, !.sql = sql_query,
                                      !.resp = e.resp, !.schema = schema,
                                      !.sql_prompt =
                                          table_sql_prompt(schema, dsk[path].wb)]
            IN  IF needs /\ StagingFails(df, fail_at)
                THEN Output(<<"log">>, 1, staged, artifact, log2)
                ELSE IF TableAccepts(sql_query)
                THEN TableExecute(log2, e, timeout, db_file, staged, artifact)
                ELSE Output(<<"log">>, 1, staged, artifact, log2)

\* a run in which no read of a sheet fails for a while
TableRun(path, cache, timeout, e, fail_at, dsk, stores, artifact) ==
    TableRunFlaky(path, cache, timeout, e, fail_at, NoReadFailures, dsk, stores,
                  artifact)

\* a run in which every to_sql call of Step 2 succeeds
TableMain(path, cache, timeout, e, dsk, stores, artifact) ==
    TableRun(path, cache, timeout, e, 0, dsk, stores, artifact)

\* the query a script would execute for a model response
SqlOf(script, resp) ==
    IF script = "answer.py" THEN ExtractSqlAnswer(resp) ELSE ExtractSqlTable(resp)

\* the environment's choice fits the query; answer.py never looks at the clock
\* and handles every exception alike, so one failing kind stands for all
EnvFits(script, e) ==
    /\ e.kind \in ExecKinds(SqlOf(script, e.resp))
    /\ script = "answer.py" => ~e.slow /\ e.kind \notin {"op_timeout", "error"}

-----------------------------------------------------------------------------
\* The bot: dispatch of one turn to a script

\* parts = result.split(MARKER); result = parts[1].strip()
UserFacing(text) ==
    IF Contains(text, <<MARKER>>)
    THEN LET rest == SplitAfter(text, <<MARKER>>)
         IN  Strip(IF Contains(rest, <<MARKER>>)
                   THEN SplitBefore(rest, <<MARKER>>)
                   ELSE rest)
    ELSE text

\* every print of the scripts goes to stdout
stderr_lines == <<>>

\* what run_script returns for a finished process
ScriptResult(returncode, stdout) ==
    IF returncode # 0
    THEN <<"script_error">> \o stderr_lines
    ELSE UserFacing(stdout)

\* run_script: answer.py always gets --cache, table_file_answer.py never does
\* and runs with the default --timeout
run_script(script_name, file_path, e, dsk, stores, artifact) ==
    LET r == IF script_name = "answer.py"
             THEN AnswerMain(file_path, TRUE, e, dsk, stores, artifact)
             ELSE TableMain(file_path, FALSE, DefaultTimeout, e, dsk, stores, artifact)
    IN  [result |-> ScriptResult(r.exit, r.stdout), dbs |-> r.dbs,
         final |-> r.final, log |-> r.log]

-----------------------------------------------------------------------------
\* The bot: session data; "" and NoPath stand for a key that is not in the dict

EmptyData ==
    [present |-> TRUE, file_id |-> "", file_name |-> <<>>, action_type |-> "",
     query |-> "", file_path |-> NoPath, has_history |-> FALSE,
     chat_history |-> <<>>]

\* user_id not in user_data
AbsentData == [EmptyData EXCEPT !.present = FALSE]

\* a faulty variant of Turn that loses the role; C11 must notice it
SystemTurn(role, content) == [role |-> "system", content |-> content]

Turn(role, content) == [role |-> role, content |-> content]

\* answer.py's own system prompt: the table's schema lines and example rows
SchemaTurn == Turn("system", <<"schema_and_examples">>)

\* a faulty variant of sql_messages that appends the question without looking
\* at the end of the history; C38 must notice it
sql_messages_asking_again(chat_history, query) ==
    (IF chat_history = <<>> THEN <<SchemaTurn>>
     ELSE IF chat_history[1].role = "system" THEN chat_history
     ELSE <<SchemaTurn>> \o chat_history)
        \o <<Turn("user", <<query>>), Turn("user", <<"sql_prompt">>)>>

\* answer.py, the messages of the SQL request: its system prompt unless the
\* history passed in starts with a system turn, then the history, the question
\* unless the history ends with it, and the request for a query
sql_messages(chat_history, query) ==
    LET messages ==
            IF chat_history = <<>> THEN <<SchemaTurn>>
            ELSE IF chat_history[1].role = "system" THEN chat_history
            ELSE <<SchemaTurn>> \o chat_history
        asked ==
            IF \/ chat_history = <<>>
               \/ chat_history[Len(chat_history)] # Turn("user", <<query>>)
            THEN Append(messages, Turn("user", <<query>>))
            ELSE messages
    IN  Append(asked, Turn("user", <<"sql_prompt">>))

\* the observation a handler leaves: who sent what, and what was shown
Observed(log, u, handler, q, shown) ==
    [log EXCEPT !.user = u, !.handler = handler, !.query = q, !.shown = shown]

NoBase == [valid |-> FALSE, rows |-> <<>>]

NoEngine ==
    [pc |-> "idle", timeout |-> 0, rs |-> <<>>, pos |-> 0, all_results |-> <<>>,
     now |-> 0, fetches |-> 0, broke_at |-> 0, late |-> FALSE,
     outcome |-> "", exit |-> 0, endless |-> FALSE]

\* run_polling has received nothing yet and no handler is in progress
NoLoop == [queue |-> <<>>, running |-> {}, arrived |-> 0]

Init ==
    /\ user_states = [u \in Users |-> Absent]
    /\ user_data = [u \in Users |-> AbsentData]
    /\ disk = [p \in Paths |-> NoFileOnDisk]
    /\ dbs = [d \in StoreFiles |-> NoStore]
    /\ final_xlsx = NoArtifact
    /\ chat_files = {}
    /\ dispatched = 0
    /\ last_turn = NoRun
    /\ chat_base = [u \in Users |-> NoBase]
    /\ ex = NoEngine
    /\ loop = NoLoop

\* a button or command handler: no pipeline run, no files touched
NoDispatch ==
    /\ last_turn' = NoRun
    /\ UNCHANGED <<disk, dbs, final_xlsx, chat_files, dispatched, ex, loop>>

\* a handler that returns before it stores anything
Untouched == UNCHANGED <<user_states, user_data, chat_base>>

\* user_states[user_id] = STATE_IDLE; if user_id in user_data: user_data[user_id] = {}
\* a faulty variant of SetState that writes every user's entry; C22 must notice
\* it
SetStateOfAll(states, u, st) == [v \in DOMAIN states |-> st]

\* user_states[user_id] = st
SetState(states, u, st) == [states EXCEPT ![u] = st]

ResetSession(u) ==
    /\ user_states' = SetState(user_states, u, STATE_IDLE)
    /\ user_data' = [user_data EXCEPT ![u] = IF @.present THEN EmptyData ELSE @]
    /\ chat_base' = [chat_base EXCEPT ![u] = NoBase]

\* /start (main() has created the Drive service before any update is handled)
start(u) == ResetSession(u) /\ NoDispatch

\* /cancel
cancel(u) == ResetSession(u) /\ NoDispatch

\* callback back_to_files
back_to_files(u) == ResetSession(u) /\ NoDispatch

\* callback main_menu
main_menu(u) == ResetSession(u) /\ NoDispatch

\* callback refresh_files: the list is shown again, nothing is stored
refresh_files(u) == Untouched /\ NoDispatch

\* what excel_file_selected stores
SelectFile(d, file_id, file_name) ==
    [(IF d.present THEN d ELSE EmptyData) EXCEPT
        !.file_id = file_id, !.file_name = file_name]

\* callback excel_<id>: the name is fetched from Drive (info_ok), then
\* excel_file_selected stores id and name; the state is not touched
excel_file_selected(u, file_id, info_ok) ==
    /\ user_data' = [user_data EXCEPT ![u] =
                        IF info_ok THEN SelectFile(@, file_id, DriveName(file_id))
                        ELSE @]
    /\ chat_base' = [chat_base EXCEPT ![u] = IF info_ok THEN NoBase ELSE @]
    /\ UNCHANGED user_states
    /\ NoDispatch

\* callbacks action_question / action_table: the state is set first, then the
\* action type is stored (KeyError when the user has no dict)
choose_action(u, action_type) ==
    /\ user_states' = [user_states EXCEPT ![u] = STATE_WAITING_QUERY]
    /\ user_data' = [user_data EXCEPT ![u] =
                        IF @.present THEN [@ EXCEPT !.action_type = action_type]
                        ELSE @]
    /\ UNCHANGED chat_base
    /\ NoDispatch

\* callback new_query: reads the action type first (KeyError when missing)
new_query(u) ==
    /\ user_states' = [user_states EXCEPT ![u] =
                        IF user_data[u].present /\ user_data[u].action_type # ""
                        THEN STATE_WAITING_QUERY ELSE @]
    /\ UNCHANGED <<user_data, chat_base>>
    /\ NoDispatch

\* a faulty variant of DropHistory that empties the whole dict; C1 must notice it
DropSession(d) == EmptyData

\* del user_data[user_id]['chat_history']
DropHistory(d) == [d EXCEPT !.has_history = FALSE, !.chat_history = <<>>]

\* callback end_chat (KeyError before anything changes when the user has no dict)
end_chat(u) ==
    /\ user_data' = [user_data EXCEPT ![u] = IF @.present THEN DropHistory(@) ELSE @]
    /\ user_states' = [user_states EXCEPT ![u] =
                        IF user_data[u].present THEN STATE_IDLE ELSE @]
    /\ UNCHANGED chat_base
    /\ NoDispatch

-----------------------------------------------------------------------------
\* The bot: text messages. The result of a run is bound once, as the member of
\* a singleton set, and read several times.

\* download_file: the Drive content is written to temp_dir/file_name; a failed
\* request returns None before the file is opened
download_file(dsk, file_id, file_name) ==
    [dsk EXCEPT ![PathJoin(temp_dir, file_name)] =
        [exists |-> TRUE, wb |-> DriveContent(file_id)]]

\* io.FileIO(file_path, 'wb') of a download that then fails
TruncateFile(dsk, file_name) ==
    [dsk EXCEPT ![PathJoin(temp_dir, file_name)] =
        [exists |-> TRUE, wb |-> Truncated]]

\* handle_text_input returns at once: unknown user, or state IDLE
text_ignored(u) ==
    /\ user_states[u] \in {Absent, STATE_IDLE}
    /\ Untouched /\ NoDispatch

\* WAITING_QUERY without a selected file: "select a file first"
text_no_file(u) ==
    /\ user_states[u] = STATE_WAITING_QUERY
    /\ ~user_data[u].present \/ user_data[u].file_id = ""
    /\ Untouched /\ NoDispatch

\* WAITING_QUERY with a file but no action type: the query is stored, then
\* KeyError before the download
text_no_action(u, q) ==
    /\ user_states[u] = STATE_WAITING_QUERY
    /\ user_data[u].present /\ user_data[u].file_id # ""
    /\ user_data[u].action_type = ""
    /\ user_data' = [user_data EXCEPT ![u].query = q]
    /\ UNCHANGED <<user_states, chat_base>>
    /\ NoDispatch

\* WAITING_QUERY with a file: the query is stored, download_file returns None
\* (before or after it opened the file for writing), early return
text_download_failed(u, q, opened) ==
    /\ user_states[u] = STATE_WAITING_QUERY
    /\ user_data[u].present /\ user_data[u].file_id # ""
    /\ user_data[u].action_type # ""
    /\ user_data' = [user_data EXCEPT ![u].query = q]
    /\ disk' = IF opened THEN TruncateFile(disk, user_data[u].file_name) ELSE disk
    /\ last_turn' = NoRun
    /\ UNCHANGED <<user_states, chat_base, dbs, final_xlsx, chat_files,
                   dispatched, ex, loop>>

\* tempfile.NamedTemporaryFile(delete=False): a name no earlier file had; the
\* n-th dispatch names its file n
TempName(n) == n + 1

\* json.dump(history, chat_file): the file exists once the with block is left
WriteChatFile(files, name, history) ==
    files \cup {[name |-> name, history |-> history]}

\* os.path.exists(chat_history_path)
ChatFileExists(files, name) == \E f \in files : f.name = name

\* a faulty variant of RemoveChatFile that leaves the file behind; C15 must
\* notice it
KeepChatFile(files, name) == files

\* if os.path.exists(chat_history_path): os.remove(chat_history_path)
RemoveChatFile(files, name) ==
    IF ChatFileExists(files, name) THEN {f \in files : f.name # name} ELSE files

\* the temp dir after a chat dispatch: the history is written, the script runs
\* (run_script returns a string on every outcome), the file is removed
AfterChatDispatch(files, name, history) ==
    RemoveChatFile(WriteChatFile(files, name, history), name)

\* a faulty variant of OpenedHistory that leaves out the system prompt; C20 must
\* notice it
OpenedWithoutSystem(d, q) ==
    (IF d.has_history THEN d.chat_history ELSE <<>>) \o <<Turn("user", <<q>>)>>

\* the history start_chat_mode sends: created when missing, then the system
\* prompt and the question are appended
OpenedHistory(d, q) ==
    (IF d.has_history THEN d.chat_history ELSE <<>>)
        \o <<Turn("system", <<"system_prompt">>), Turn("user", <<q>>)>>

\* WAITING_QUERY, action 'question', download succeeded: start_chat_mode
start_chat_mode(u, q, e) ==
    /\ user_states[u] = STATE_WAITING_QUERY
    /\ user_data[u].present /\ user_data[u].file_id # ""
    /\ user_data[u].action_type = "question"
    /\ EnvFits("answer.py", e)
    /\ \E r \in {run_script("answer.py", PathJoin(temp_dir, user_data[u].file_name), e,
                            download_file(disk, user_data[u].file_id,
                                          user_data[u].file_name),
                            dbs, final_xlsx)} :
       LET d == user_data[u]
           downloaded_file_path == PathJoin(temp_dir, d.file_name)
           dsk == download_file(disk, d.file_id, d.file_name)
           result == UserFacing(r.result)
       IN  /\ disk' = dsk
           /\ dbs' = r.dbs
           /\ final_xlsx' = r.final
           /\ user_states' = [user_states EXCEPT ![u] = STATE_CHAT_MODE]
           /\ user_data' = [user_data EXCEPT ![u] =
                   [d EXCEPT !.query = q,
                             !.file_path = downloaded_file_path,
                             !.has_history = TRUE,
                             !.chat_history =
                                 OpenedHistory(d, q) \o <<Turn("assistant", result)>>]]
           /\ chat_base' = [chat_base EXCEPT ![u] =
                   [valid |-> r.log.exec_called, rows |-> r.log.store_rows]]
           /\ chat_files' = AfterChatDispatch(chat_files, TempName(dispatched),
                                              OpenedHistory(d, q))
           /\ last_turn' = [Observed(r.log, u, "start_chat_mode", q, result)
                               EXCEPT !.chat_file = TempName(dispatched)]
    /\ dispatched' = dispatched + 1
    /\ UNCHANGED <<ex, loop>>

\* a faulty variant of TableSession that opens a chat history for the request;
\* C14 must notice it
TableSessionWithChat(d, q, path) ==
    [d EXCEPT !.query = q, !.file_path = path, !.has_history = TRUE,
              !.chat_history = OpenedHistory(d, q)]

\* what the table branch of handle_text_input stores in the session: the query
\* and the path of the downloaded file
TableSession(d, q, path) == [d EXCEPT !.query = q, !.file_path = path]

\* WAITING_QUERY, any other action type, download succeeded: build a table;
\* final.xlsx, when it exists after the run, is sent and removed. When sending
\* raises (~sent_ok) os.remove is not reached: the except clause of the
\* handler reports the error and the file stays in the working directory
TableTurn(u, q, e, sent_ok) ==
    /\ user_states[u] = STATE_WAITING_QUERY
    /\ user_data[u].present /\ user_data[u].file_id # ""
    /\ user_data[u].action_type \notin {"", "question"}
    /\ EnvFits("table_file_answer.py", e)
    /\ \E r \in {run_script("table_file_answer.py",
                            PathJoin(temp_dir, user_data[u].file_name), e,
                            download_file(disk, user_data[u].file_id,
                                          user_data[u].file_name),
                            dbs, final_xlsx)} :
       LET d == user_data[u]
           downloaded_file_path == PathJoin(temp_dir, d.file_name)
           dsk == download_file(disk, d.file_id, d.file_name)
       IN  /\ disk' = dsk
           /\ dbs' = r.dbs
           /\ ~sent_ok => r.final.exists
           /\ final_xlsx' = IF r.final.exists /\ sent_ok THEN NoArtifact
                            ELSE r.final
           /\ user_data' = [user_data EXCEPT
                   ![u] = TableSession(d, q, downloaded_file_path)]
           /\ last_turn' = Observed(r.log, u, "text_table", q,
                               IF ~r.final.exists THEN r.result
                               ELSE IF sent_ok THEN <<"document">>
                               ELSE <<"send_error">>)
    /\ dispatched' = dispatched + 1
    /\ UNCHANGED <<user_states, chat_files, chat_base, ex, loop>>

\* the table branch of handle_text_input when every Telegram call succeeds
text_table(u, q, e) == TableTurn(u, q, e, TRUE)

\* the table branch when final.xlsx exists and reply_document raises
text_table_send_failed(u, q, e) == TableTurn(u, q, e, FALSE)

\* CHAT_MODE: process_chat_query
process_chat_query(u, q, e) ==
    /\ user_states[u] = STATE_CHAT_MODE
    /\ EnvFits("answer.py", e)
    /\ \E r \in {run_script("answer.py", user_data[u].file_path, e, disk, dbs,
                            final_xlsx)} :
       LET d == user_data[u]
           result == UserFacing(r.result)
       IN  /\ dbs' = r.dbs
           /\ final_xlsx' = r.final
           /\ user_data' = [user_data EXCEPT ![u].chat_history =
                   @ \o <<Turn("user", <<q>>), Turn("assistant", result)>>]
           /\ chat_files' = AfterChatDispatch(chat_files, TempName(dispatched),
                                   Append(d.chat_history, Turn("user", <<q>>)))
           /\ last_turn' = [Observed(r.log, u, "process_chat_query", q, result)
                               EXCEPT !.chat_file = TempName(dispatched)]
    /\ dispatched' = dispatched + 1
    /\ UNCHANGED <<user_states, disk, chat_base, ex, loop>>

\* callback generate_report without enough history (or without a dict)
report_refused(u) ==
    /\ ~user_data[u].present \/ ~user_data[u].has_history
           \/ Len(user_data[u].chat_history) < 3
    /\ Untouched /\ NoDispatch

\* the fixed request generate_report_from_chat sends as the query
report_prompt == "report_prompt"

\* report_history: a copy of the history with the report request appended
ReportHistory(h) == Append(h, Turn("user", <<report_prompt>>))

\* a faulty variant of LiveAfterReport in which report_history aliases the live
\* list; C13 must notice it
LiveAliased(h) == ReportHistory(h)

\* the live history after report_history was built from .copy()
LiveAfterReport(h) == h

\* callback generate_report: the request is appended to a copy of the history
generate_report_from_chat(u, e) ==
    /\ user_data[u].present /\ user_data[u].has_history
    /\ Len(user_data[u].chat_history) >= 3
    /\ EnvFits("answer.py", e)
    /\ \E r \in {run_script("answer.py", user_data[u].file_path, e, disk, dbs,
                            final_xlsx)} :
           /\ dbs' = r.dbs
           /\ final_xlsx' = r.final
           /\ chat_files' = AfterChatDispatch(chat_files, TempName(dispatched),
                                   ReportHistory(user_data[u].chat_history))
           /\ last_turn' = [Observed(r.log, u, "generate_report", report_prompt,
                                     UserFacing(r.result))
                               EXCEPT !.chat_file = TempName(dispatched)]
    /\ user_data' = [user_data EXCEPT ![u].chat_history = LiveAfterReport(@)]
    /\ dispatched' = dispatched + 1
    /\ UNCHANGED <<user_states, disk, chat_base, ex, loop>>

\* the model answers the bot's runs are checked with
BotResponses ==
    { <<"SELECT", "cols">>,
      <<FENCE, "sql", NL, "DELETE", "cols", NL, FENCE>>,
      <<"api_error">> }

\* the runs of the bot model: the model call made after execution succeeds
BotEnvs == {e \in Envs : e.resp \in BotResponses /\ e.api_ok}

\* the bound on pipeline runs
MayDispatch == dispatched < MaxDispatch

\* Spec follows one session through every handler
OneUser == {"u1"}

Next ==
    \/ \E u \in OneUser : start(u)
    \/ \E u \in OneUser : cancel(u)
    \/ \E u \in OneUser : back_to_files(u)
    \/ \E u \in OneUser : main_menu(u)
    \/ \E u \in OneUser : refresh_files(u)
    \/ \E u \in OneUser, f \in FileIds, info_ok \in BOOLEAN :
            excel_file_selected(u, f, info_ok)
    \/ \E u \in OneUser, a \in {"question", "table"} : choose_action(u, a)
    \/ \E u \in OneUser : new_query(u)
    \/ \E u \in OneUser : end_chat(u)
    \/ \E u \in OneUser : text_ignored(u)
    \/ \E u \in OneUser : text_no_file(u)
    \/ \E u \in OneUser, q \in Queries : text_no_action(u, q)
    \/ \E u \in OneUser, q \in Queries, opened \in BOOLEAN :
            text_download_failed(u, q, opened)
    \/ MayDispatch /\ \E u \in OneUser, q \in Queries, e \in BotEnvs :
            start_chat_mode(u, q, e)
    \/ MayDispatch /\ \E u \in OneUser, q \in Queries, e \in BotEnvs :
            text_table(u, q, e)
    \/ MayDispatch /\ \E u \in OneUser, q \in Queries, e \in BotEnvs :
            process_chat_query(u, q, e)
    \/ \E u \in OneUser : report_refused(u)
    \/ MayDispatch /\ \E u \in OneUser, e \in BotEnvs :
            generate_report_from_chat(u, e)

Spec == Init /\ [][Next]_vars

-----------------------------------------------------------------------------
\* Two sessions that share the working directory: both users select a file,
\* choose an action and send questions; every run of a script succeeds

SharedEnvs ==
    {e \in BotEnvs : e.read_ok /\ ~e.slow /\ e.resp = <<"SELECT", "cols">>
                        /\ e.kind = "rows" /\ e.n = MaxN}

MaySharedDispatch == dispatched < MaxSharedDispatch

NextShared ==
    \/ \E u \in Users, f \in FileIds : excel_file_selected(u, f, TRUE)
    \/ \E u \in Users, a \in {"question", "table"} : choose_action(u, a)
    \/ \E u \in Users : end_chat(u)
    \/ MaySharedDispatch /\ \E u \in Users, q \in Queries, e \in SharedEnvs :
            start_chat_mode(u, q, e)
    \/ MaySharedDispatch /\ \E u \in Users, q \in Queries, e \in SharedEnvs :
            text_table(u, q, e)
    \/ MaySharedDispatch /\ \E u \in Users, q \in Queries, e \in SharedEnvs :
            process_chat_query(u, q, e)

SpecShared == Init /\ [][NextShared]_vars

-----------------------------------------------------------------------------
\* One session through every handler with two different messages; a run of a
\* script either succeeds or fails when the query is executed

Messages == {"q1", "q2"}

ChatEnvs ==
    {e \in BotEnvs : /\ e.read_ok /\ ~e.slow /\ e.resp = <<"SELECT", "cols">>
                     /\ \/ e.kind = "rows" /\ e.n = MaxN
                        \/ e.kind = "op_error"}

MayChatDispatch == dispatched < MaxChatDispatch

NextChat ==
    \/ \E u \in OneUser : start(u)
    \/ \E u \in OneUser : cancel(u)
    \/ \E u \in OneUser : back_to_files(u)
    \/ \E u \in OneUser : main_menu(u)
    \/ \E u \in OneUser : refresh_files(u)
    \/ \E u \in OneUser, f \in FileIds, info_ok \in BOOLEAN :
            excel_file_selected(u, f, info_ok)
    \/ \E u \in OneUser, a \in {"question", "table"} : choose_action(u, a)
    \/ \E u \in OneUser : new_query(u)
    \/ \E u \in OneUser : end_chat(u)
    \/ \E u \in OneUser : text_ignored(u)
    \/ \E u \in OneUser : text_no_file(u)
    \/ \E u \in OneUser, q \in Messages : text_no_action(u, q)
    \/ \E u \in OneUser, q \in Messages, opened \in BOOLEAN :
            text_download_failed(u, q, opened)
    \/ MayChatDispatch /\ \E u \in OneUser, q \in Messages, e \in ChatEnvs :
            start_chat_mode(u, q, e)
    \/ MayChatDispatch /\ \E u \in OneUser, q \in Messages, e \in ChatEnvs :
            text_table(u, q, e)
    \/ MayChatDispatch /\ \E u \in OneUser, q \in Messages, e \in ChatEnvs :
            process_chat_query(u, q, e)
    \/ \E u \in OneUser : report_refused(u)
    \/ MayChatDispatch /\ \E u \in OneUser, e \in ChatEnvs :
            generate_report_from_chat(u, e)

SpecChat == Init /\ [][NextChat]_vars

-----------------------------------------------------------------------------
\* Two sessions through every handler

\* a command, a button callback or a text message of u that starts no run
Undispatched(u) ==
    \/ start(u)
    \/ cancel(u)
    \/ back_to_files(u)
    \/ main_menu(u)
    \/ refresh_files(u)
    \/ \E f \in FileIds, info_ok \in BOOLEAN : excel_file_selected(u, f, info_ok)
    \/ \E a \in {"question", "table"} : choose_action(u, a)
    \/ new_query(u)
    \/ end_chat(u)
    \/ text_ignored(u)
    \/ text_no_file(u)
    \/ \E q \in Queries : text_no_action(u, q)
    \/ \E q \in Queries, opened \in BOOLEAN : text_download_failed(u, q, opened)
    \/ report_refused(u)

\* a text message or a report request of u that runs a script
Dispatched(u) ==
    \/ \E q \in Queries, e \in ChatEnvs : start_chat_mode(u, q, e)
    \/ \E q \in Queries, e \in ChatEnvs : text_table(u, q, e)
    \/ \E q \in Queries, e \in ChatEnvs : process_chat_query(u, q, e)
    \/ \E e \in ChatEnvs : generate_report_from_chat(u, e)

\* any handler run for u
HandlerOf(u) == Undispatched(u) \/ Dispatched(u)

MayFrameDispatch == dispatched < MaxFrameDispatch

NextFrame ==
    \/ \E u \in Users : Undispatched(u)
    \/ MayFrameDispatch /\ \E u \in Users : Dispatched(u)

SpecFrame == Init /\ [][NextFrame]_vars

-----------------------------------------------------------------------------
\* The polling application, stepwise: updates arrive while a handler awaits
\* its pipeline run

\* the n-th update received, of user u: a callback (file chosen, action
\* 'question' chosen), a text message or /cancel; phase is the position of its
\* handler, file and path are the handler's locals, since is the number of
\* updates that had been received when its run was started
Update(n, u, kind) ==
    [id |-> n, user |-> u, kind |-> kind, phase |-> "new", file |-> 0,
     path |-> EmptyData.file_path, since |-> 0]

UpdateKinds == {"excel_f1", "action_question", "text", "cancel"}

MayArrive == loop.arrived < MaxUpdates

LoopOnly ==
    UNCHANGED <<user_states, user_data, disk, dbs, final_xlsx, chat_files,
                dispatched, last_turn, chat_base, ex>>

\* getUpdates returns an update; it waits in the application's queue
arrive(u, kind) ==
    /\ MayArrive
    /\ loop' = [loop EXCEPT !.queue = Append(@, Update(loop.arrived + 1, u, kind)),
                            !.arrived = @ + 1]
    /\ LoopOnly

\* a faulty variant of MayFetch that takes the next update while a handler is
\* still awaited (concurrent_updates switched on); C23 must notice it
FetchesConcurrently(running) == TRUE

\* Application.builder().token(..).build(): concurrent_updates is not set and
\* every handler is registered blocking, so the application awaits the handler
\* of one update before it takes the next from the queue
MayFetch(running) == running = {}

fetch ==
    /\ loop.queue # <<>>
    /\ MayFetch(loop.running)
    /\ loop' = [loop EXCEPT !.queue = Tail(@), !.running = @ \cup {Head(loop.queue)}]
    /\ LoopOnly

\* the handler of h has returned (or raised)
Returned(h) == [loop EXCEPT !.running = @ \ {h}]

\* the handler of h awaits run_script
Awaiting(h, handler, file, path) ==
    [loop EXCEPT !.running = (@ \ {h}) \cup
        {[h EXCEPT !.phase = handler, !.file = file, !.path = path,
                   !.since = loop.arrived]}]

InFlight(h) == h.phase # "new"

\* a callback or command handler runs from its first line to its last
handle_command(h) ==
    /\ h \in loop.running /\ ~InFlight(h)
    /\ \/ /\ h.kind = "cancel"
          /\ ResetSession(h.user)
       \/ /\ h.kind = "excel_f1"
          /\ user_data' = [user_data EXCEPT ![h.user] =
                              SelectFile(@, "f1", DriveName("f1"))]
          /\ chat_base' = [chat_base EXCEPT ![h.user] = NoBase]
          /\ UNCHANGED user_states
       \/ /\ h.kind = "action_question"
          /\ user_states' = SetState(user_states, h.user, STATE_WAITING_QUERY)
          /\ user_data' = [user_data EXCEPT ![h.user] =
                              IF @.present THEN [@ EXCEPT !.action_type = "question"]
                              ELSE @]
          /\ UNCHANGED chat_base
    /\ loop' = Returned(h)
    /\ last_turn' = NoRun
    /\ UNCHANGED <<disk, dbs, final_xlsx, chat_files, dispatched, ex>>

\* handle_text_input up to the await of run_script: returns at once without a
\* session or a file; otherwise start_chat_mode (after the download) or
\* process_chat_query extends the history, writes it to a temp file and starts
\* the run
begin_turn(h, q) ==
    /\ h \in loop.running /\ ~InFlight(h) /\ h.kind = "text"
    /\ LET u == h.user
           d == user_data[u]
       IN  \/ /\ \/ user_states[u] \in {Absent, STATE_IDLE}
                 \/ /\ user_states[u] = STATE_WAITING_QUERY
                    /\ ~d.present \/ d.file_id = ""
                 \/ user_states[u] = STATE_CHAT_MODE /\ ~d.has_history
              /\ loop' = Returned(h)
              /\ UNCHANGED <<user_states, user_data, disk, chat_files, dispatched>>
           \/ /\ user_states[u] = STATE_WAITING_QUERY
              /\ d.present /\ d.file_id # "" /\ d.action_type = "question"
              /\ disk' = download_file(disk, d.file_id, d.file_name)
              /\ user_states' = SetState(user_states, u, STATE_CHAT_MODE)
              /\ user_data' = [user_data EXCEPT ![u] =
                      [d EXCEPT !.query = q,
                                !.file_path = PathJoin(temp_dir, d.file_name),
                                !.has_history = TRUE,
                                !.chat_history = OpenedHistory(d, q)]]
              /\ chat_files' = WriteChatFile(chat_files, TempName(dispatched),
                                             OpenedHistory(d, q))
              /\ loop' = Awaiting(h, "start_chat_mode", TempName(dispatched),
                                  PathJoin(temp_dir, d.file_name))
              /\ dispatched' = dispatched + 1
           \/ /\ user_states[u] = STATE_CHAT_MODE /\ d.has_history
              /\ user_data' = [user_data EXCEPT ![u].chat_history =
                                  Append(@, Turn("user", <<q>>))]
              /\ chat_files' = WriteChatFile(chat_files, TempName(dispatched),
                                   Append(d.chat_history, Turn("user", <<q>>)))
              /\ loop' = Awaiting(h, "process_chat_query", TempName(dispatched),
                                  d.file_path)
              /\ dispatched' = dispatched + 1
              /\ UNCHANGED <<user_states, disk>>
    /\ last_turn' = NoRun
    /\ UNCHANGED <<dbs, final_xlsx, chat_base, ex>>

\* the awaited run_script returns: the temp file is removed, the result is
\* appended to the session's history (KeyError when the session has none) and
\* shown
end_turn(h, q, e) ==
    /\ h \in loop.running /\ InFlight(h)
    /\ EnvFits("answer.py", e)
    /\ \E r \in {run_script("answer.py", h.path, e, disk, dbs, final_xlsx)} :
       LET u == h.user
           result == UserFacing(r.result)
       IN  /\ dbs' = r.dbs
           /\ final_xlsx' = r.final
           /\ chat_files' = RemoveChatFile(chat_files, h.file)
           /\ user_data' = [user_data EXCEPT ![u] =
                   IF @.has_history
                   THEN [@ EXCEPT !.chat_history = Append(@, Turn("assistant", result))]
                   ELSE @]
           /\ chat_base' = [chat_base EXCEPT ![u] =
                   IF h.phase = "start_chat_mode"
                   THEN [valid |-> r.log.exec_called, rows |-> r.log.store_rows]
                   ELSE @]
           /\ last_turn' = [Observed(r.log, u, h.phase, q, result)
                               EXCEPT !.chat_file = h.file]
    /\ loop' = Returned(h)
    /\ UNCHANGED <<user_states, disk, dispatched, ex>>

NextLoop ==
    \/ \E u \in Users, kind \in UpdateKinds : arrive(u, kind)
    \/ fetch
    \/ \E h \in loop.running : handle_command(h)
    \/ \E h \in loop.running, q \in Queries : begin_turn(h, q)
    \/ \E h \in loop.running, q \in Queries, e \in ChatEnvs : end_turn(h, q, e)

SpecLoop == Init /\ [][NextLoop]_vars

-----------------------------------------------------------------------------
\* The scripts run from the command line on files at several paths, with and
\* without --cache

PipeWorkbooks == {WbA, WbB}

PipeEnvs == SharedEnvs

MayRun == dispatched < MaxPipeRuns

PipeFrame == UNCHANGED <<user_states, user_data, chat_files, chat_base, ex, loop>>

\* a spreadsheet is placed at a path
put_file(p, wb) ==
    /\ disk' = [disk EXCEPT ![p] = [exists |-> TRUE, wb |-> wb]]
    /\ UNCHANGED <<dbs, final_xlsx, dispatched, last_turn>>
    /\ PipeFrame

\* python answer.py <path> <query> [--cache]
cli_answer(p, cache, e) ==
    /\ EnvFits("answer.py", e)
    /\ \E r \in {AnswerMain(p, cache, e, disk, dbs, final_xlsx)} :
           /\ dbs' = r.dbs
           /\ final_xlsx' = r.final
           /\ last_turn' = Observed(r.log, "", "cli", "q1", r.stdout)
    /\ dispatched' = dispatched + 1
    /\ UNCHANGED disk
    /\ PipeFrame

\* python table_file_answer.py <path> <query> [--cache]
cli_table(p, cache, e, fail_at) ==
    /\ EnvFits("table_file_answer.py", e)
    /\ \E r \in {TableRun(p, cache, DefaultTimeout, e, fail_at, disk, dbs,
                          final_xlsx)} :
           /\ dbs' = r.dbs
           /\ final_xlsx' = r.final
           /\ last_turn' = Observed(r.log, "", "cli", "q1", r.stdout)
    /\ dispatched' = dispatched + 1
    /\ UNCHANGED disk
    /\ PipeFrame

NextPipe ==
    \/ \E p \in Paths, wb \in PipeWorkbooks : put_file(p, wb)
    \/ MayRun /\ \E p \in Paths, cache \in BOOLEAN, e \in PipeEnvs :
            cli_answer(p, cache, e)
    \/ MayRun /\ \E p \in Paths, cache \in BOOLEAN, e \in PipeEnvs :
            cli_table(p, cache, e, 0)

SpecPipe == Init /\ [][NextPipe]_vars

-----------------------------------------------------------------------------
\* The scripts run on one path that holds a short or a long spreadsheet; the
\* chunked staging of the long one may fail after its first chunk

StageWorkbooks == {WbA, WbBig}

StagePath == PathJoin(temp_dir, NameA)

\* the to_sql call of Step 2 that raises: none, or the second
FailAts == {0, 2}

MayStageRun == dispatched < MaxStageRuns

NextStage ==
    \/ \E wb \in StageWorkbooks : put_file(StagePath, wb)
    \/ MayStageRun /\ \E cache \in BOOLEAN, e \in PipeEnvs :
            cli_answer(StagePath, cache, e)
    \/ MayStageRun /\ \E cache \in BOOLEAN, e \in PipeEnvs, fail_at \in FailAts :
            cli_table(StagePath, cache, e, fail_at)

SpecStage == Init /\ [][NextStage]_vars

-----------------------------------------------------------------------------
\* table_file_answer.py on spreadsheets whose sheets fail to read a number of
\* times

\* every count of failed reads for every sheet of wb
FailVectors(wb) == [1..Len(wb) -> 0..MaxAttempts]

MayRetryRun == dispatched < MaxRetryRuns

\* python table_file_answer.py <path> <query> [--cache], reads failing
cli_table_flaky(p, cache, e, fails) ==
    /\ EnvFits("table_file_answer.py", e)
    /\ disk[p].exists
    /\ fails \in FailVectors(disk[p].wb)
    /\ \E r \in {TableRunFlaky(p, cache, DefaultTimeout, e, 0, fails, disk, dbs,
                               final_xlsx)} :
           /\ dbs' = r.dbs
           /\ final_xlsx' = r.final
           /\ last_turn' = Observed(r.log, "", "cli", "q1", r.stdout)
    /\ dispatched' = dispatched + 1
    /\ UNCHANGED disk
    /\ PipeFrame

NextRetry ==
    \/ \E wb \in PipeWorkbooks : put_file(StagePath, wb)
    \/ MayRetryRun /\ \E cache \in BOOLEAN, e \in PipeEnvs :
            \E fails \in UNION {FailVectors(wb) : wb \in PipeWorkbooks} :
                cli_table_flaky(StagePath, cache, e, fails)

SpecRetry == Init /\ [][NextRetry]_vars

-----------------------------------------------------------------------------
\* table_file_answer.py on a spreadsheet long enough for a result of more than
\* 1000 rows, with every kind of reply to the request for a grouping

WbLong == << [name |-> "s1", rows |-> [i \in 1..(AggThreshold + 1) |-> 100 + i],
              cols |-> <<NumberColumn>>] >>

AggWorkbooks == {WbA, WbLong}

\* group-by field, aggregation field, value fields
SummaryReplies ==
    { << <<"_sheet_name">>, <<"sum">>, <<"value">> >>,
      << <<"_sheet_name">>, <<"sum">>, <<"value">>, <<"ghost">> >>,
      << <<"_sheet_name">>, <<"sum">>, <<"ghost">> >>,
      << <<"ghost">>, <<"sum">>, <<"value">> >>,
      << <<"_sheet_name">>, <<"sum">> >>,
      << <<"no_commas">> >> }

AggEnvs ==
    [read_ok : {TRUE}, resp : {<<"SELECT", "cols">>}, kind : {"rows"},
     n : {MaxN, AggThreshold + 1}, api_ok : BOOLEAN, slow : {FALSE},
     summary : SummaryReplies, agg_raises : BOOLEAN]

MayAggRun == dispatched < MaxAggRuns

NextAgg ==
    \/ \E wb \in AggWorkbooks : put_file(StagePath, wb)
    \/ MayAggRun /\ \E cache \in BOOLEAN, e \in AggEnvs :
            cli_table(StagePath, cache, e, 0)

SpecAgg == Init /\ [][NextAgg]_vars

-----------------------------------------------------------------------------
\* Two sessions that build tables in the shared working directory; a run
\* returns rows, returns nothing or fails, and sending the result may fail

SendEnvs ==
    {e \in BotEnvs : e.read_ok /\ ~e.slow /\ e.resp = <<"SELECT", "cols">>
                        /\ e.kind \in {"rows", "op_error"}}

MaySendDispatch == dispatched < MaxSendDispatch

NextSend ==
    \/ \E u \in Users, f \in FileIds : excel_file_selected(u, f, TRUE)
    \/ \E u \in Users : choose_action(u, "table")
    \/ MaySendDispatch /\ \E u \in Users, q \in Queries, e \in SendEnvs :
            text_table(u, q, e)
    \/ MaySendDispatch /\ \E u \in Users, q \in Queries, e \in SendEnvs :
            text_table_send_failed(u, q, e)

SpecSend == Init /\ [][NextSend]_vars

-----------------------------------------------------------------------------
\* The scripts run on one path with every answer and every failure of the
\* model API and of the query

ApiEnvs == Envs

MayApiRun == dispatched < MaxApiRuns

NextApi ==
    \/ \E wb \in PipeWorkbooks : put_file(StagePath, wb)
    \/ MayApiRun /\ \E cache \in BOOLEAN, e \in ApiEnvs :
            cli_answer(StagePath, cache, e)
    \/ MayApiRun /\ \E cache \in BOOLEAN, e \in ApiEnvs :
            cli_table(StagePath, cache, e, 0)

SpecApi == Init /\ [][NextApi]_vars

-----------------------------------------------------------------------------
\* The execution engine of table_file_answer.py (Steps 6 and 7), one step per
\* call: cursor.execute, every cursor.fetchmany, the test of the result. The
\* clock advances by the time each call takes.

\* sizes of the result set: around none, one and MaxBatches full batches
RowCounts ==
    {0, 1} \cup {k * BATCH_SIZE + r : k \in 1..MaxBatches, r \in {0, 1}}

\* --timeout values the engine is run with
Timeouts == {1, MaxTicks - 1}

\* the time one call may take, the clock staying within MaxTicks
Delays(now) == {d \in 0..MaxTicks : now + d <= MaxTicks}

\* the result set of the query: n distinct rows
ResultSet(n) == [i \in 1..n |-> i]

\* start_time = time.time(), just before cursor.execute
ExecStart(n, timeout) ==
    /\ ex.pc = "idle"
    /\ ex' = [NoEngine EXCEPT !.pc = "execute", !.timeout = timeout,
                              !.rs = ResultSet(n)]

\* the same for a query whose result never runs out (a recursive query
\* without a limit): every fetchmany returns a full batch
ExecStartEndless(timeout) ==
    /\ ex.pc = "idle"
    /\ ex' = [NoEngine EXCEPT !.pc = "execute", !.timeout = timeout,
                              !.endless = TRUE]

\* cursor.fetchmany(BATCH_SIZE) of the run x
NextBatch(x) ==
    IF x.endless THEN [i \in 1..BATCH_SIZE |-> x.pos + i]
    ELSE FetchMany(x.rs, x.pos)

\* a faulty variant of Elapsed that measures from the previous batch; C39 must
\* notice it
ElapsedSinceBatch(now, d) == d

\* elapsed = time.time() - start_time, after a call that took d
Elapsed(now, d) == now + d

\* how an exception of Step 6 ends the run
Raised(kind) ==
    CASE kind = "op_timeout" -> "gpt_simplify"
      [] kind = "op_error" -> "gpt_clarify_error"
      [] OTHER -> "raw_error"

\* cursor.execute(sql_query) takes d and returns, or raises; `late` records
\* that the budget has elapsed while no row is collected
ExecQuery(kind, d) ==
    /\ ex.pc = "execute"
    /\ d \in Delays(ex.now)
    /\ ex' = IF kind = "rows"
             THEN [ex EXCEPT !.pc = "fetch", !.now = @ + d,
                             !.late = ex.now + d > ex.timeout]
             ELSE [ex EXCEPT !.pc = "done", !.now = @ + d,
                             !.outcome = Raised(kind), !.exit = 1]

\* one pass of the while loop: fetchmany takes d; an empty batch ends the
\* loop, otherwise the batch is kept and the elapsed time is tested
ExecFetch(d) ==
    /\ ex.pc = "fetch"
    /\ d \in Delays(ex.now)
    /\ LET batch == NextBatch(ex)
           elapsed == Elapsed(ex.now, d)
       IN  ex' = IF batch = <<>>
                 THEN [ex EXCEPT !.pc = "check", !.now = ex.now + d,
                                 !.fetches = @ + 1,
                                 !.late = @ \/ (ex.all_results = <<>>
                                                /\ elapsed > ex.timeout)]
                 ELSE [ex EXCEPT
                         !.pc = IF BudgetExceeded(elapsed, ex.timeout)
                                THEN "check" ELSE "fetch",
                         !.now = ex.now + d,
                         !.fetches = @ + 1,
                         !.pos = @ + Len(batch),
                         !.all_results = @ \o batch,
                         !.broke_at = IF BudgetExceeded(elapsed, ex.timeout)
                                      THEN ex.fetches + 1 ELSE 0]

\* Step 7: if not query_result: clarification and sys.exit(1); else Step 8
ExecCheck ==
    /\ ex.pc = "check"
    /\ ex' = IF ex.all_results = <<>>
             THEN [ex EXCEPT !.pc = "done", !.outcome = "gpt_clarify_empty",
                             !.exit = 1]
             ELSE [ex EXCEPT !.pc = "done", !.outcome = "materialized"]

\* the next run of the script
ExecExit ==
    /\ ex.pc = "done"
    /\ ex' = NoEngine

EngineOnly ==
    UNCHANGED <<user_states, user_data, disk, dbs, final_xlsx, chat_files,
                dispatched, last_turn, chat_base, loop>>

NextExec ==
    \/ \E n \in RowCounts, t \in Timeouts : ExecStart(n, t) /\ EngineOnly
    \/ \E kind \in ExecKinds(<<"SELECT", "cols">>), d \in 0..MaxTicks :
            ExecQuery(kind, d) /\ EngineOnly
    \/ \E d \in 0..MaxTicks : ExecFetch(d) /\ EngineOnly
    \/ ExecCheck /\ EngineOnly
    \/ ExecExit /\ EngineOnly

SpecExec == Init /\ [][NextExec]_vars

-----------------------------------------------------------------------------
\* The draining loop with time advancing: every fetchmany takes at least one
\* tick, the result is finite or never runs out. The script is one sequential
\* process, so a loop that can make its next pass does make it.

\* the loop's next pass
DrainPass == \E d \in 1..MaxTicks : ExecFetch(d) /\ EngineOnly

NextDrain ==
    \/ \E n \in RowCounts, t \in Timeouts : ExecStart(n, t) /\ EngineOnly
    \/ \E t \in Timeouts : ExecStartEndless(t) /\ EngineOnly
    \/ \E kind \in ExecKinds(<<"SELECT", "cols">>), d \in 0..(MaxTicks - 1) :
            ExecQuery(kind, d) /\ EngineOnly
    \/ DrainPass
    \/ ExecCheck /\ EngineOnly
    \/ ExecExit /\ EngineOnly

SpecDrain == Init /\ [][NextDrain]_vars /\ WF_vars(DrainPass)

-----------------------------------------------------------------------------
\* Properties of the session state machine (checked under Spec)

SessionStates == {STATE_IDLE, STATE_WAITING_QUERY, STATE_CHAT_MODE}

\* the step is a text message of u that start_chat_mode dispatched
ChatStarted(u) ==
    /\ dispatched' = dispatched + 1
    /\ last_turn'.user = u
    /\ last_turn'.handler = "start_chat_mode"

\* the step is a text message of u handled in WAITING_QUERY with a file and an
\* action type: it is dispatched, or its download fails
TextHandled(u) ==
    \/ dispatched' = dispatched + 1 /\ last_turn'.user = u
           /\ last_turn'.handler \in {"start_chat_mode", "text_table"}
    \/ \E q \in Queries, opened \in BOOLEAN : text_download_failed(u, q, opened)

\* selecting a file in IDLE keeps IDLE and stores the file; action_question
\* then leads to WAITING_QUERY
SelectThenAsk(u) ==
    /\ (user_states[u] = STATE_IDLE
            /\ \E f \in FileIds : excel_file_selected(u, f, TRUE))
        => (user_states'[u] = STATE_IDLE /\ user_data'[u].file_id # "")
    /\ (user_states[u] = STATE_IDLE /\ user_data[u].file_id # ""
            /\ choose_action(u, "question"))
        => (user_states'[u] = STATE_WAITING_QUERY
                /\ user_data'[u].action_type = "question")

\* end_chat in CHAT_MODE leads to IDLE and keeps the file identity
EndChatKeepsFile(u) ==
    (user_states[u] = STATE_CHAT_MODE /\ end_chat(u))
        => /\ user_states'[u] = STATE_IDLE
           /\ user_data'[u].file_id = user_data[u].file_id
           /\ user_data'[u].file_name = user_data[u].file_name
           /\ user_data'[u].file_id # ""

C2_ResetsLeaveIdle ==
    [][\A u \in Users :
          (/\ user_states[u] \in SessionStates
           /\ \/ cancel(u) \/ back_to_files(u) \/ main_menu(u) \/ end_chat(u)
              \/ \E f \in FileIds : excel_file_selected(u, f, TRUE))
          => (user_states'[u] = STATE_IDLE /\ ~user_data'[u].has_history)]_vars

-----------------------------------------------------------------------------
\* Properties of the staging store and of query validation (last_turn holds
\* what the last dispatched run did)

\* C3: with caching enabled, a run on a path whose store was filled by an
\* earlier run on the same path queries rows staged from the file's present
\* content: a changed file is staged again.
C3_ChangedFileRestaged ==
    (/\ last_turn.cache /\ last_turn.exec_called
     /\ last_turn.store_src_path = last_turn.path)
    => last_turn.store_src = last_turn.fp

\* the digest of the file a session has selected
SelectedDigest(u) == get_file_hash(DriveContent(user_data[u].file_id))

\* C4: no run executes its query against a store staged from a file with
\* another fingerprint, in particular not from the file of the same base name
\* that another session is using.
C4_NoStoreOfAnotherSession ==
    \A u \in Users, v \in Users :
        (/\ u # v /\ last_turn.user = u /\ last_turn.exec_called
         /\ user_data[v].file_id # ""
         /\ user_data[v].file_path = last_turn.path
         /\ SelectedDigest(v) # last_turn.fp)
        => last_turn.store_src # SelectedDigest(v)

\* C5: a response that after extraction does not begin with SELECT is never
\* executed.
C5_OnlySelectExecuted ==
    last_turn.exec_called => StartsWithSelect(last_turn.sql)

\* C6: when the query of a dispatched turn fails to execute, the user is shown
\* the model-authored text printed after the marker.
C6_FailureShowsClarification ==
    (last_turn.exec_called /\ last_turn.kind # "rows")
    => (last_turn.reply \in GptTexts /\ last_turn.shown = <<last_turn.reply>>)

\* C7: when the executed query returns zero rows, one model call follows and
\* its reply is what the user receives, in both modes.
C7_EmptyResultClarified ==
    (last_turn.exec_called /\ last_turn.kind = "rows" /\ last_turn.nrows = 0)
    => /\ last_turn.calls_after_exec = 1
       /\ last_turn.reply \in GptTexts
       /\ last_turn.shown = <<last_turn.reply>>

\* C10: while a session does not switch files, every chat turn after the first
\* queries a store holding the rows the first turn's store held, whatever the
\* other sessions do in between.
C10_ChatKeepsStore ==
    \A u \in Users :
        (/\ last_turn.user = u /\ last_turn.handler = "process_chat_query"
         /\ last_turn.exec_called /\ chat_base[u].valid)
        => last_turn.store_rows = chat_base[u].rows

-----------------------------------------------------------------------------
\* Properties of the execution engine (checked under SpecExec)

\* the rows of the first k batches, in fetch order
FirstBatches(rs, k) == SubSeq(rs, 1, Min(k * BATCH_SIZE, Len(rs)))

\* C8: rows are fetched in batches of BATCH_SIZE and the elapsed time is
\* compared with the budget after each batch; once the budget is exceeded after
\* batch k >= 1 no further batch is fetched, the result is the rows of batches
\* 1..k in fetch order, and the run goes on to materialise it (exit code 0).
C8_BudgetStopsDraining ==
    /\ ex.pc = "fetch" =>
          /\ ex.all_results = FirstBatches(ex.rs, ex.fetches)
          /\ ex.pos = Len(ex.all_results)
          /\ ex.pos > 0 => ex.now <= ex.timeout
    /\ ex.broke_at >= 1 =>
          /\ ex.pc \in {"check", "done"}
          /\ ex.now > ex.timeout
          /\ ex.fetches = ex.broke_at
          /\ ex.all_results = FirstBatches(ex.rs, ex.broke_at)
          /\ ex.all_results # <<>>
          /\ ex.pc = "done" => (ex.outcome = "materialized" /\ ex.exit = 0)

\* C8 witness: the budget ran out after the first of several batches and the
\* run finished by materialising exactly that batch
C8_Witness ==
    /\ ex.pc = "done" /\ ex.broke_at = 1
    /\ Len(ex.rs) > BATCH_SIZE
    /\ ex.all_results = SubSeq(ex.rs, 1, BATCH_SIZE)
    /\ ex.outcome = "materialized"

\* C9: when the budget elapses before any row is collected, the run ends with
\* the model's request to simplify the query.
C9_LateRunAsksToSimplify ==
    (ex.pc = "done" /\ ex.late) => ex.outcome = "gpt_simplify"

-----------------------------------------------------------------------------
\* Properties of the chat history (checked under SpecChat)

\* the step is a text message of u that process_chat_query dispatched
ChatTurn(u) ==
    /\ dispatched' = dispatched + 1
    /\ last_turn'.user = u
    /\ last_turn'.handler = "process_chat_query"

\* C11: every text message handled in CHAT_MODE leaves the session in CHAT_MODE
\* and extends the history by exactly two turns, a user turn holding the
\* message and then an assistant turn holding the dispatch result, whether the
\* run of the script succeeded or failed.
C11_ChatTurnAppendsTwo ==
    [][\A u \in Users :
          ChatTurn(u) =>
            /\ user_states[u] = STATE_CHAT_MODE
            /\ user_states'[u] = STATE_CHAT_MODE
            /\ user_data'[u].chat_history =
                 user_data[u].chat_history
                   \o << [role |-> "user", content |-> <<last_turn'.query>>],
                         [role |-> "assistant", content |-> last_turn'.shown] >>
            /\ last_turn'.shown # <<>>]_vars

\* C11 witness: a chat turn whose script run failed was appended after a chat
\* turn with another message
C11_Witness ==
    \E u \in Users :
        /\ last_turn.user = u /\ last_turn.handler = "process_chat_query"
        /\ last_turn.exit = 1
        /\ user_states[u] = STATE_CHAT_MODE
        /\ Len(user_data[u].chat_history) = 5
        /\ user_data[u].chat_history[2].content # user_data[u].chat_history[4].content

\* the role the claimed shape gives to position i of a history
ShapeRole(i) ==
    IF i = 1 THEN "system" ELSE IF i % 2 = 0 THEN "user" ELSE "assistant"

\* C12: between handlers a session's chat history, when present, is one system
\* turn followed by alternating user and assistant turns, and the turns of the
\* last dispatched chat message are the message and then its reply.
C12_HistoryWellFormed ==
    \A u \in Users :
        user_data[u].has_history =>
          LET h == user_data[u].chat_history
          IN  /\ \A i \in 1..Len(h) : h[i].role = ShapeRole(i)
              /\ h # <<>> => Len(h) % 2 = 1
              /\ (/\ last_turn.user = u
                  /\ last_turn.handler \in {"start_chat_mode", "process_chat_query"})
                   => /\ Len(h) >= 3
                      /\ h[Len(h) - 1].content = <<last_turn.query>>
                      /\ h[Len(h)].content = last_turn.shown

\* the step is a report u asked for and generate_report_from_chat dispatched
ReportTurn(u) ==
    /\ dispatched' = dispatched + 1
    /\ last_turn'.user = u
    /\ last_turn'.handler = "generate_report"

\* C13: a dispatched generate_report leaves the user's live chat history, the
\* rest of the session data and the session state exactly as they were: neither
\* the report request nor the report reply reaches the live history.
C13_ReportLeavesSession ==
    [][\A u \in Users :
          ReportTurn(u) =>
            /\ user_data[u].has_history
            /\ user_data'[u] = user_data[u]
            /\ user_states'[u] = user_states[u]]_vars

\* C13 witness: a report was produced from a chat of two questions
C13_Witness ==
    \E u \in Users :
        /\ last_turn.user = u /\ last_turn.handler = "generate_report"
        /\ last_turn.query = report_prompt
        /\ last_turn.shown # <<>>
        /\ user_states[u] = STATE_CHAT_MODE
        /\ Len(user_data[u].chat_history) = 5

\* the step is a text message of u handled in WAITING_QUERY with action type
\* 'table': table_file_answer.py is dispatched, or the download fails
TableText(u) ==
    /\ user_states[u] = STATE_WAITING_QUERY
    /\ user_data[u].present /\ user_data[u].file_id # ""
    /\ user_data[u].action_type = "table"
    /\ \/ dispatched' = dispatched + 1 /\ last_turn'.user = u
              /\ last_turn'.handler = "text_table"
       \/ \E q \in Queries, opened \in BOOLEAN : text_download_failed(u, q, opened)

\* C14: a text message handled in WAITING_QUERY with action type 'table' never
\* moves the session to CHAT_MODE and neither creates nor changes a chat
\* history.
C14_TableNeverChats ==
    [][\A u \in Users :
          TableText(u) =>
            /\ user_states'[u] = STATE_WAITING_QUERY
            /\ user_data'[u].has_history = user_data[u].has_history
            /\ user_data'[u].chat_history = user_data[u].chat_history]_vars

\* C14 witness: a table was requested in a session that still holds the history
\* of an earlier chat
C14_Witness ==
    \E u \in Users :
        /\ last_turn.user = u /\ last_turn.handler = "text_table"
        /\ last_turn.script = "table_file_answer.py"
        /\ user_states[u] = STATE_WAITING_QUERY
        /\ user_data[u].action_type = "table"
        /\ user_data[u].has_history /\ Len(user_data[u].chat_history) = 3

\* the step is a dispatch of u made by one of the three chat handlers
ChatDispatch(u) ==
    /\ dispatched' = dispatched + 1
    /\ last_turn'.user = u
    /\ last_turn'.handler \in {"start_chat_mode", "process_chat_query",
                               "generate_report"}

\* C15: for every dispatch made by start_chat_mode, process_chat_query and
\* generate_report_from_chat a serialized-history file was written, and it no
\* longer exists once the handler has finished, whether the run succeeded or
\* failed; no such file is left between handlers.
C15_ChatFileRemoved ==
    [][\A u \in Users :
          ChatDispatch(u) =>
            /\ last_turn'.chat_file = TempName(dispatched)
            /\ ~ChatFileExists(chat_files', last_turn'.chat_file)
            /\ chat_files' = {}]_vars

\* C15 witness: the third dispatch of a session is a report whose run failed,
\* after two chat turns, and no serialized history is left
C15_Witness ==
    /\ last_turn.handler = "generate_report"
    /\ last_turn.exit = 1
    /\ last_turn.chat_file = 3
    /\ chat_files = {}

-----------------------------------------------------------------------------
\* Properties of the staging store across runs

\* C16: when --cache is not given, the staging store file of a run does not
\* exist after the process has ended, whichever script ran and however it
\* ended.
C16_UncachedRunLeavesNoStore ==
    (last_turn.script # "" /\ ~last_turn.cache)
        => ~dbs[DbFile(last_turn.path)].exists

\* the spreadsheet content with digest h
StagedFrom(h) == CHOOSE wb \in StageWorkbooks : get_file_hash(wb) = h

\* C17: after a staging that failed part-way through the chunked insertion, no
\* invocation, with or without --cache, executes a query against a store that
\* holds only a prefix of the rows of the file it was staged from.
C17_NoPrefixStoreQueried ==
    last_turn.exec_called =>
        Len(last_turn.store_rows) = Len(ReadExcel(StagedFrom(last_turn.store_src)))

\* the step is a run with --cache that follows a run with --cache which built
\* its store, on another path whose file has the same content
SecondCachedRun ==
    /\ last_turn.script # "" /\ last_turn.cache
    /\ last_turn.staged /\ last_turn.exec_called
    /\ dbs[DbFile(last_turn.path)].exists
    /\ dispatched' = dispatched + 1
    /\ last_turn'.script # "" /\ last_turn'.cache
    /\ last_turn'.path # last_turn.path
    /\ disk[last_turn.path].exists /\ disk[last_turn'.path].exists
    /\ disk[last_turn'.path].wb = disk[last_turn.path].wb
    /\ get_file_hash(disk[last_turn.path].wb) = last_turn.fp

\* C18: with caching enabled, two invocations on files with identical content
\* but different paths compute the same fingerprint, and the second reuses the
\* store the first built without inserting any rows.
C18_SameContentReusesStore ==
    [][SecondCachedRun =>
          /\ last_turn'.fp = last_turn.fp
          /\ ~last_turn'.staged
          /\ last_turn'.exec_called
          /\ last_turn'.store_src_path = last_turn.path]_vars

\* the step is a run with --cache of the script whose last run, also with
\* --cache, stored the same (fingerprint, store name) key in file_cache, and the
\* store file exists when the run starts
RunWithPopulatedKey ==
    /\ last_turn.cache /\ last_turn.populated
    /\ dbs[DbFile(last_turn.path)].exists
    /\ dispatched' = dispatched + 1
    /\ last_turn'.script = last_turn.script /\ last_turn'.cache
    /\ last_turn'.fp = last_turn.fp
    /\ DbFile(last_turn'.path) = DbFile(last_turn.path)

\* C19: with caching enabled, when the (fingerprint, store name) key was
\* populated by an earlier ingestion and the store file still exists, ingestion
\* reuses the cached relation and does not read the spreadsheet again.
C19_PopulatedKeySkipsRead ==
    [][RunWithPopulatedKey => ~last_turn'.read_called]_vars

-----------------------------------------------------------------------------
\* A new chat on the same file after end_chat (checked under SpecChat)

\* the session end_chat leaves when pressed in CHAT_MODE: the file and the
\* action type are kept, the history is gone
FileKept(u, state) ==
    /\ user_states[u] = state
    /\ user_data[u].present /\ user_data[u].file_id # ""
    /\ user_data[u].action_type = "question"
    /\ ~user_data[u].has_history

\* the step is a text message of u whose download fails
DownloadFailed(u) ==
    \E q \in Messages, opened \in BOOLEAN : text_download_failed(u, q, opened)

\* C20: end_chat pressed in CHAT_MODE leaves IDLE with the file and the action
\* type kept and no history; new_query then leads to WAITING_QUERY without a
\* file being selected; a text message then starts a chat on the same file whose
\* history is one system turn, the new question and its reply when the download
\* succeeds, and leaves WAITING_QUERY without a history when the download fails.
C20_NewChatAfterEndChat ==
    [][\A u \in Users :
          /\ (user_states[u] = STATE_CHAT_MODE /\ end_chat(u))
                => /\ FileKept(u, STATE_IDLE)'
                   /\ user_data'[u].file_id = user_data[u].file_id
                   /\ user_data'[u].file_name = user_data[u].file_name
          /\ (FileKept(u, STATE_IDLE) /\ new_query(u))
                => /\ FileKept(u, STATE_WAITING_QUERY)'
                   /\ user_data'[u] = user_data[u]
          /\ (FileKept(u, STATE_WAITING_QUERY) /\ ChatStarted(u))
                => /\ user_states'[u] = STATE_CHAT_MODE
                   /\ user_data'[u].file_id = user_data[u].file_id
                   /\ user_data'[u].has_history
                   /\ user_data'[u].chat_history =
                        << [role |-> "system", content |-> <<"system_prompt">>],
                           [role |-> "user", content |-> <<last_turn'.query>>],
                           [role |-> "assistant", content |-> last_turn'.shown] >>
          /\ (FileKept(u, STATE_WAITING_QUERY) /\ DownloadFailed(u))
                => FileKept(u, STATE_WAITING_QUERY)']_vars

\* C20 witness: a second chat runs on the store the first chat staged, and its
\* history holds the three turns of the new chat only
C20_Witness ==
    \E u \in Users :
        /\ dispatched >= 2
        /\ last_turn.user = u /\ last_turn.handler = "start_chat_mode"
        /\ ~last_turn.staged /\ last_turn.exec_called
        /\ user_states[u] = STATE_CHAT_MODE
        /\ Len(user_data[u].chat_history) = 3
        /\ user_data[u].chat_history[2].content = <<"q2">>

\* C20 as stated: every text message sent after end_chat and new_query reaches
\* CHAT_MODE with a history of three turns
C20_EveryTextAfterEndChatStartsChat ==
    [][\A u \in Users :
          (FileKept(u, STATE_WAITING_QUERY) /\ (ChatStarted(u) \/ DownloadFailed(u)))
              => /\ user_states'[u] = STATE_CHAT_MODE
                 /\ Len(user_data'[u].chat_history) = 3]_vars

-----------------------------------------------------------------------------
\* Failed turns and session ownership

\* the step is a text message of u whose pipeline run ended with a non-zero exit
FailedTurn(u) ==
    /\ dispatched' = dispatched + 1
    /\ last_turn'.user = u
    /\ last_turn'.handler \in {"start_chat_mode", "text_table", "process_chat_query"}
    /\ last_turn'.exit # 0

\* C21: a turn whose pipeline run fails leaves the session's state, active file
\* and action type as they were before the turn.
C21_FailedTurnKeepsSession ==
    [][\A u \in Users :
          FailedTurn(u) =>
            /\ user_states'[u] = user_states[u]
            /\ user_data'[u].file_id = user_data[u].file_id
            /\ user_data'[u].file_name = user_data[u].file_name
            /\ user_data'[u].action_type = user_data[u].action_type]_vars

\* the step is a handler run for a: HandlerOf(a), with what every run of a
\* script leaves in the observation tested first
StepOf(a) ==
    \/ dispatched' = dispatched /\ Undispatched(a)
    \/ dispatched' = dispatched + 1 /\ last_turn'.user = a /\ Dispatched(a)

\* C22: every handler run for user A (a command, a button callback, a text
\* message) leaves the state, active file, action type and chat history of every
\* other user B unchanged.
C22_OtherSessionsUntouched ==
    [][\A a \in Users :
          \/ \A b \in Users \ {a} :
                /\ user_states'[b] = user_states[b]
                /\ user_data'[b] = user_data[b]
          \/ ~StepOf(a)]_vars

\* C22 witness: u2 has just had a table built while u1 is in a chat it started
\* before
C22_Witness ==
    /\ user_states["u1"] = STATE_CHAT_MODE
    /\ Len(user_data["u1"].chat_history) = 3
    /\ last_turn.user = "u2" /\ last_turn.handler = "text_table"
    /\ user_states["u2"] = STATE_WAITING_QUERY
    /\ user_data["u2"].file_id # user_data["u1"].file_id

\* the pipeline runs of user u that have been started and have not returned
RunsInFlight(u) == {h \in loop.running : h.user = u /\ InFlight(h)}

\* C23: at no time are two turn dispatches (pipeline runs started by
\* run_script) for the same user id in flight together.
C23_OneDispatchInFlight ==
    \A u \in Users : Cardinality(RunsInFlight(u)) <= 1

\* C23 witness: a run of u1 is in flight while the next text message of u1 has
\* already been received
C23_Witness ==
    /\ RunsInFlight("u1") # {}
    /\ \E i \in 1..Len(loop.queue) :
          loop.queue[i].user = "u1" /\ loop.queue[i].kind = "text"

\* a /cancel of h's user has come in since the run of h was started
CancelledInFlight(h) ==
    \E i \in 1..Len(loop.queue) :
        /\ loop.queue[i].user = h.user /\ loop.queue[i].kind = "cancel"
        /\ loop.queue[i].id > h.since

RECURSIVE RowsBefore(_, _)
RowsBefore(wb, k) == IF k = 0 THEN 0 ELSE RowsBefore(wb, k - 1) + Len(wb[k].rows)

\* the relation holds the rows of wb: as many as the sheets have together, the
\* j-th row of sheet k after all rows of the sheets before it, tagged with the
\* sheet's name
HoldsSheets(rel, wb) ==
    /\ Len(rel) = RowsBefore(wb, Len(wb))
    /\ \A k \in 1..Len(wb) : \A j \in 1..Len(wb[k].rows) :
          /\ rel[RowsBefore(wb, k - 1) + j].value = wb[k].rows[j]
          /\ rel[RowsBefore(wb, k - 1) + j].sheet_name = wb[k].name

\* C25: for a file with sheets s1..sn, the staged relation has exactly
\* len(s1)+...+len(sn) rows, every row's _sheet_name is the name of the sheet it
\* was read from, and the rows keep the sheet order and their order within each
\* sheet (seen by the query of the run that staged the file).
C25_StagedRelationHoldsSheets ==
    [][(dispatched' = dispatched + 1 /\ last_turn'.staged /\ last_turn'.exec_called)
          => HoldsSheets(last_turn'.store_rows, disk[last_turn'.path].wb)]_vars

\* C25 witness: a run has staged the file of two sheets and queried the store
C25_Witness ==
    /\ last_turn.staged /\ last_turn.exec_called
    /\ disk[last_turn.path].wb = WbB
    /\ Len(last_turn.store_rows) = 2
    /\ last_turn.store_rows[1].sheet_name # last_turn.store_rows[2].sheet_name

\* C26: chat_with_gpt returns a text on every call, the completion on success
\* and the error text on any failure of the API call, and never raises: every
\* run that asked the model after executing the query prints what the model
\* call returned below the marker, the error text when the API failed.
C26_ModelCallReturnsText ==
    (last_turn.exec_called /\ last_turn.calls_after_exec > 0) =>
        /\ last_turn.reply \in GptTexts \cup {"api_error"}
        /\ last_turn.api_failed = (last_turn.reply = "api_error")
        /\ Contains(last_turn.shown, <<MARKER, NL, last_turn.reply>>)

\* C26 witness: answer.py ran its query, the API call for the answer failed,
\* and the run printed the error text as its answer and exited 0
C26_Witness ==
    /\ last_turn.script = "answer.py" /\ last_turn.exec_called
    /\ last_turn.api_failed /\ last_turn.reply = "api_error"
    /\ last_turn.exit = 0

\* C27: when the model call that requests the description of a built table
\* fails, the user-facing description is the templated text built from the
\* result's row and column counts.
C27_FailedDescriptionIsTemplated ==
    (/\ last_turn.script = "table_file_answer.py"
     /\ last_turn.exit = 0 /\ last_turn.nrows > 0 /\ last_turn.api_failed)
        => last_turn.reply = "templated_description"

\* the run executed its query without an error: it ends with an answer, with
\* a result artifact, or with the clarification printed for an empty result
EndsWithOutcome(t) == t.exec_called /\ t.kind = "rows"

\* C28: a run of an entry point that ends in an ingestion, staging, synthesis
\* or unexpected failure exits with code 1, and a run that ends with an answer,
\* a result artifact or a recognized empty-result clarification exits with
\* code 0 (default mode).
C28_ExitCodeTellsOutcome ==
    (last_turn.script # "" /\ ~last_turn.api_failed) =>
        (last_turn.exit = 0 <=> EndsWithOutcome(last_turn))

\* query texts, bare and padded with line breaks
QueryTexts == { <<"SELECT", "cols">>, <<NL, "SELECT", "cols", NL>> }

\* q in a fence tagged sql, q in an untagged fence
TaggedFence(q) == <<FENCE, "sql", NL>> \o q \o <<NL, FENCE>>
PlainFence(q) == <<FENCE, NL>> \o q \o <<NL, FENCE>>

\* C29: for any query text q, extraction applied to q wrapped in a fence tagged
\* sql, to q wrapped in an untagged fence, and to q with no fence returns the
\* same string, q trimmed, in every entry point: a run whose model response is
\* one of the three forms of q goes on with q trimmed.
C29_ExtractionIgnoresWrapping ==
    \A q \in QueryTexts :
        (/\ last_turn.script # ""
         /\ last_turn.resp \in {q, TaggedFence(q), PlainFence(q)})
            => last_turn.sql = Strip(q)

\* C30: every query-generation request sent to the model contains the staged
\* table's schema block and sample rows, for every chat history passed in,
\* also one that starts with a system turn written by the bot: the request
\* answer.py builds from a history file the bot has written holds the schema
\* turn.
C30_SqlRequestCarriesSchema ==
    \A f \in chat_files : \A q \in Queries :
        \E i \in 1..Len(sql_messages(f.history, q)) :
            sql_messages(f.history, q)[i] = SchemaTurn

\* C31: each sheet read is attempted at most 3 times; a sheet whose read
\* succeeds on attempt k is added to the relation exactly once; a sheet whose 3
\* attempts all fail aborts the run with exit code 1, the staging store neither
\* created nor modified and no cache entry written.
C31_RetriesBoundedAndClean ==
    [][(dispatched' = dispatched + 1 /\ last_turn'.read_called) =>
          /\ \A i \in 1..Len(last_turn'.attempts) :
                last_turn'.attempts[i] \in 1..MaxAttempts
          /\ (~last_turn'.read_aborted /\ last_turn'.staged)
                => HoldsSheets(dbs'[DbFile(last_turn'.path)].rows,
                               disk[last_turn'.path].wb)
          /\ last_turn'.read_aborted
                => /\ last_turn'.exit = 1
                   /\ dbs' = dbs
                   /\ ~last_turn'.populated]_vars

\* C31 witness: the first sheet was read at the third attempt, the second at
\* the second, and both are in the store once
C31_Witness ==
    /\ last_turn.attempts = <<3, 2>>
    /\ ~last_turn.read_aborted /\ last_turn.staged
    /\ Len(dbs[DbFile(last_turn.path)].rows) = 2

\* C31 witness of the abort: the second sheet failed three times after the first
\* was read, over a store an earlier run had left
C31_WitnessAbort ==
    /\ last_turn.attempts = <<1, 3>>
    /\ last_turn.read_aborted /\ last_turn.exit = 1
    /\ dbs[DbFile(last_turn.path)].exists

\* C32: whenever the schema block contains a date-like column (declared type
\* TIMESTAMP, or a name containing 'Date' or the Cyrillic word for it), the
\* query-generation prompt sent to the model includes the date-handling guidance
\* produced by generate_sql_for_date_filters.
C32_DatePromptCarriesGuidance ==
    (/\ last_turn.script = "table_file_answer.py"
     /\ last_turn.staged /\ last_turn.sql_prompt # <<>>
     /\ \E i \in 1..Len(last_turn.schema) : DateLike(last_turn.schema[i]))
        => \E base \in {table_sql_prompt(last_turn.schema, disk[last_turn.path].wb)} :
              last_turn.sql_prompt =
                  generate_sql_for_date_filters(base, last_turn.schema)

\* the run of table_file_answer.py observed last has written final.xlsx
BuiltTable ==
    /\ last_turn.script = "table_file_answer.py"
    /\ last_turn.exit = 0 /\ last_turn.nrows > 0
    /\ final_xlsx.exists /\ Len(final_xlsx.rows) = last_turn.nrows

\* C33 as stated: an aggregated sheet is attached to the artifact exactly when
\* the result has more than 1000 rows, the model's reply has at least three
\* comma-separated fields, and the proposed group-by column and all proposed
\* value columns exist in the result's column set.
C33_AggregateWhenAllColumnsExist ==
    BuiltTable =>
        (final_xlsx.summary <=>
            /\ last_turn.nrows > AggThreshold
            /\ Len(last_turn.summary) >= 3
            /\ last_turn.summary[1] \in ColumnNames(last_turn.schema)
            /\ \A i \in 3..Len(last_turn.summary) :
                  last_turn.summary[i] \in ColumnNames(last_turn.schema))

\* C33 amended: an aggregated sheet is attached exactly when the result has more
\* than 1000 rows, the reply has at least three fields, the group-by column and
\* at least one proposed value column exist in the result's columns, and nothing
\* raised while the aggregate was computed and written.
C33_AggregateWhenSomeColumnExists ==
    BuiltTable =>
        (final_xlsx.summary <=>
            /\ last_turn.nrows > AggThreshold
            /\ Len(last_turn.summary) >= 3
            /\ last_turn.summary[1] \in ColumnNames(last_turn.schema)
            /\ \E i \in 3..Len(last_turn.summary) :
                  last_turn.summary[i] \in ColumnNames(last_turn.schema)
            /\ ~last_turn.agg_raised)

\* C33 witness: a result of 1001 rows got its aggregated sheet although one of
\* the two proposed value columns does not exist
C33_Witness ==
    /\ BuiltTable /\ final_xlsx.summary
    /\ last_turn.nrows = AggThreshold + 1
    /\ Len(last_turn.summary) = 4
    /\ last_turn.summary[4] \notin ColumnNames(last_turn.schema)

\* C34: any failure while asking for or computing the aggregated view leaves
\* the primary result sheet written to the artifact, and the run goes on to the
\* description step and ends as a success.
C34_AggregationFailureNotFatal ==
    [][(/\ dispatched' = dispatched + 1
        /\ last_turn'.script = "table_file_answer.py"
        /\ last_turn'.summary # <<>>
        /\ last_turn'.agg_raised \/ last_turn'.api_failed)
          => /\ final_xlsx'.exists
             /\ Len(final_xlsx'.rows) > AggThreshold
             /\ final_xlsx'.rows = QueryRows(dbs'[DbFile(last_turn'.path)],
                                             Len(final_xlsx'.rows))
             /\ last_turn'.calls_after_exec = 2
             /\ last_turn'.reply \in {"gpt_description", "api_error"}
             /\ Contains(last_turn'.shown, <<MARKER, NL, last_turn'.reply>>)
             /\ last_turn'.exit = 0]_vars

\* C34 witness: pandas raised while it grouped a result of 1001 rows for a
\* usable reply; the file holds the rows and the description was printed
C34_Witness ==
    /\ BuiltTable /\ last_turn.agg_raised /\ ~last_turn.api_failed
    /\ Len(last_turn.summary) = 3
    /\ AggDict(last_turn.summary, ColumnNames(last_turn.schema)) # {}
    /\ ~final_xlsx.summary
    /\ last_turn.reply = "gpt_description"


-----------------------------------------------------------------------------
\* C35: in every reachable state, a session in WAITING_QUERY or CHAT_MODE has
\* an active file (file_id and file_name) and an action type recorded.
C35_WaitingSessionHasFile ==
    \A u \in OneUser :
        user_states[u] \in {STATE_WAITING_QUERY, STATE_CHAT_MODE}
            => /\ user_data[u].present
               /\ user_data[u].file_id # ""
               /\ user_data[u].file_name # <<>>
               /\ user_data[u].action_type # ""


\* C36: whenever a chat turn is dispatched in CHAT_MODE, the path passed to
\* the script is where the session's active file is downloaded to, and the
\* file at that path is the downloaded content of the active file.
C36_ChatTurnUsesActiveFile ==
    [][\A u \in OneUser :
          ChatTurn(u) =>
            /\ last_turn'.path = PathJoin(temp_dir, user_data[u].file_name)
            /\ disk[last_turn'.path].exists
            /\ disk[last_turn'.path].wb = DriveContent(user_data[u].file_id)]_vars


\* the run of the observed turn wrote the result file
WroteResult(h) ==
    /\ h.script = "table_file_answer.py" /\ h.exec_called
    /\ h.kind = "rows" /\ h.nrows > 0

\* C37: in table-building mode a result file is sent only if the run of that
\* same turn produced it; a final.xlsx left by an earlier turn, of this or of
\* another user, is never sent as the turn's result.
C37_SentFileIsOfThisTurn ==
    [][\A u \in Users :
          (/\ dispatched' = dispatched + 1
           /\ last_turn'.user = u /\ last_turn'.handler = "text_table"
           /\ last_turn'.shown \in {<<"document">>, <<"send_error">>})
          => WroteResult(last_turn')]_vars


\* the questions a history file is sent with, and one it has never held
Questions == Queries \cup {"q2"}

\* C38: in the messages answer.py sends for query generation the current
\* question is the last turn before the SQL instruction and is there once,
\* whether or not the history passed in already ends with a user turn holding
\* the question.
C38_QuestionOnceBeforeInstruction ==
    \A f \in chat_files : \A q \in Questions :
        \E m \in {sql_messages(f.history, q)} :
            /\ Len(m) >= 3
            /\ m[Len(m)] = Turn("user", <<"sql_prompt">>)
            /\ m[Len(m) - 1] = Turn("user", <<q>>)
            /\ m[Len(m) - 2] # Turn("user", <<q>>)
            /\ Len(m) = Len(f.history) + 1
                 + (IF f.history[Len(f.history)] = Turn("user", <<q>>)
                    THEN 0 ELSE 1)

\* C38 witness: the history file of a second chat turn exists; it ends with
\* the user turn of the question asked and does not hold the other question
C38_Witness ==
    \E f \in chat_files :
        /\ Len(f.history) >= 4
        /\ f.history[1].role = "system"
        /\ f.history[Len(f.history)] = Turn("user", <<"q1">>)
        /\ f.history[Len(f.history)] # Turn("user", <<"q2">>)


\* C39: the draining loop terminates. A pass leaves the loop only on an empty
\* batch or with the elapsed time above the budget, and stays in it only with
\* rows fetched and the elapsed time within the budget; with every fetch taking
\* time, a result that never runs out is left after at most timeout + 1
\* batches, and every loop that was entered is left.
C39_DrainingTerminates ==
    /\ [][(ex.pc = "fetch" /\ ex'.pc = "check")
            => (ex'.pos = ex.pos \/ ex'.now > ex.timeout)]_vars
    /\ [][(ex.pc = "fetch" /\ ex'.pc = "fetch")
            => (ex'.pos > ex.pos /\ ex'.now <= ex.timeout)]_vars
    /\ [](ex.endless => ex.fetches <= ex.timeout + 1)
    /\ (ex.pc = "fetch") ~> (ex.pc = "check")

\* C39 witness: a query whose result never runs out was stopped by the budget
\* after its second batch and its rows were materialised
C39_Witness ==
    /\ ex.endless /\ ex.pc = "done" /\ ex.outcome = "materialized"
    /\ ex.fetches = 2 /\ ex.broke_at = 2
    /\ Len(ex.all_results) = 2 * BATCH_SIZE

=============================================================================
